---------------------------- MODULE Spec2Model ----------------------------
(***************************************************************************)
(* cargo-wasix: toolchain resolver (src/toolchain.rs), scoped file locks   *)
(* (src/utils.rs) and the fetch-and-extract of cached tools (src/lib.rs).  *)
(*                                                                         *)
(* Every invocation of the tool is a process.  A process performs calls,   *)
(* one after the other; a call is ensure_toolchain, build_toolchain or     *)
(* download.  Each step that talks to the outside (rustup, rustc, the      *)
(* network, the file lock) is one action, so that the steps of concurrent  *)
(* invocations interleave the way the operating system lets them.          *)
(*                                                                         *)
(* Strings are sequences of symbols: a symbol is one character, or a chunk *)
(* of a path holding neither white space nor a character of a toolchain    *)
(* name.                                                                   *)
(***************************************************************************)
EXTENDS Integers, Sequences, FiniteSets, TLC

VARIABLES
    registry,   \* rustup: toolchain name -> registered directory, or NoPath
    dirs,       \* file system: toolchain directory -> entries present in it
    libc,       \* file system: the wasix-libc sysroots are valid
    cache,      \* file system: expected sub-paths present under the cache parent
    tcLock,     \* holder of the toolchain-registration lock, or NoProc
    dlLock,     \* holder of the lock on the cache's `downloading` file, or NoProc
    pc,         \* per process: position in the running call
    call,       \* per process: the running call and its arguments
    loc,        \* per process: local variables of the running call, and what
                \* was registered under the reserved name when it called link
    res,        \* per process: the call that ended last, and its outcome
    work,       \* per process: acquisition steps performed by the running call
    calls,      \* per process: calls the process has still to make
    frame,      \* per process: locals of main, rmain and the functions they call
    stdout,     \* per process: the lines the invocation has printed to its stdout
    files,      \* file system: the files of every artifact in the target directory
    project     \* the project in the working directory: what its build prints

\* the state of an orchestration (lib.rs: main and what it calls)
mainVars == <<frame, stdout, files, project>>

vars == <<registry, dirs, libc, cache, tcLock, dlLock, pc, call, loc, res, work, calls,
          frame, stdout, files, project>>

-----------------------------------------------------------------------------
(* Bounds *)

\* calls one process performs one after the other
MaxCalls == 3

\* concurrent invocations of the tool
Procs == {"p1", "p2"}

NoProc == "none"

-----------------------------------------------------------------------------
(* Strings *)

WS == {" ", "\t", "\n"}

RUSTUP_TOOLCHAIN_NAME == <<"w", "a", "s", "i", "x">>

\* a toolchain the user linked under a name that starts with the reserved one
UserName == <<"w", "a", "s", "i", "x", "2">>

\* the host toolchain every rustup installation has
StableName == <<"s", "t", "a", "b", "l", "e">>

NoPath == <<>>

\* directory of the toolchain registered before the tool ran
OldDir == <<"/old">>

\* <toolchains root>/<host>_<tag>/rust, written by download_toolchain
PrebuiltDir == <<"/prebuilt">>

\* <build root>/wasix-rust/build/<host>/stage2, written by build_rust
Stage2Dir == <<"/stage2">>

\* the directory of the toolchain every machine has
StableDir == <<"/stable">>

\* the same directory under the name rustc finds for it when it resolves
\* the location of its own executable
Canonical(path) == <<"/real">> \o path

\* the directory a path leads to
Resolve(path) == IF path # <<>> /\ Head(path) = "/real" THEN Tail(path) ELSE path

ToolchainDirs == {OldDir, PrebuiltDir, Stage2Dir}

Names == {StableName, RUSTUP_TOOLCHAIN_NAME, UserName}

Entries == {"dir", "bin/rustc", "lib/rustlib/wasm32-wasmer-wasi", "lib/rustlib/wasm64-wasmer-wasi"}

\* sub-paths of the cache that the download target must provide
SubPaths == {"bin/wasm-opt", "lib/libbinaryen"}

RECURSIVE TrimStart(_)
TrimStart(s) == IF s # <<>> /\ Head(s) \in WS THEN TrimStart(Tail(s)) ELSE s

RECURSIVE TrimEnd(_)
TrimEnd(s) ==
    IF s # <<>> /\ s[Len(s)] \in WS THEN TrimEnd(SubSeq(s, 1, Len(s) - 1)) ELSE s

\* str::trim
Trim(s) == TrimEnd(TrimStart(s))

\* str::starts_with
StartsWith(s, prefix) ==
    /\ Len(prefix) <= Len(s)
    /\ SubSeq(s, 1, Len(prefix)) = prefix

None == [some |-> FALSE, val |-> <<>>]

Some(v) == [some |-> TRUE, val |-> v]

\* str::strip_prefix
StripPrefix(s, prefix) ==
    IF StartsWith(s, prefix) THEN Some(SubSeq(s, Len(prefix) + 1, Len(s))) ELSE None

-----------------------------------------------------------------------------
(* rustup and rustc, as the resolver uses them *)

\* one line of `rustup toolchain list --verbose`
ListingLine(reg, name) ==
    IF reg[name] = NoPath THEN <<>> ELSE << name \o <<"\t">> \o reg[name] >>

\* stdout of `rustup toolchain list --verbose`: one line per registered
\* toolchain, in the order of the names
Listing(reg) ==
    ListingLine(reg, StableName) \o ListingLine(reg, RUSTUP_TOOLCHAIN_NAME)
        \o ListingLine(reg, UserName)

\* Iterator::find over the lines: index of the first line that matches, or 0
RECURSIVE FirstMatch(_, _, _)
FirstMatch(lines, name, i) ==
    IF i > Len(lines) THEN 0
    ELSE IF StartsWith(Trim(lines[i]), name) THEN i
    ELSE FirstMatch(lines, name, i + 1)

find_by_name_never(name, lines) == None

find_by_name(name, lines) ==
    LET i == FirstMatch(lines, name, 1)
        stripped == IF i = 0 THEN None ELSE StripPrefix(lines[i], name)
    IN  IF stripped.some THEN Some(Trim(stripped.val)) ELSE None

\* Path::join(..).exists() / is_file() under a toolchain directory
EntryExists(d, path, entry) ==
    /\ Resolve(path) \in DOMAIN d
    /\ entry \in d[Resolve(path)]

lib_name_32_only(is64bit) == "lib/rustlib/wasm32-wasmer-wasi"

lib_name(is64bit) ==
    IF is64bit THEN "lib/rustlib/wasm64-wasmer-wasi" ELSE "lib/rustlib/wasm32-wasmer-wasi"

\* what `rustc +name --print sysroot` can write to stdout: nothing when the
\* name is not registered or its directory has no compiler
SysrootOutputs(reg, d, name) ==
    IF reg[name] # NoPath /\ EntryExists(d, reg[name], "bin/rustc")
    THEN {reg[name] \o <<"\n">>, Canonical(reg[name]) \o <<"\n">>}
    ELSE {}

-----------------------------------------------------------------------------
(* Scoped locks *)

\* utils::flock: the outcomes of locking a file that `holder` holds now.
\* lock_exclusive blocks while another process holds the lock; creating or
\* opening the file, or the lock call itself, can fail.
flock(holder, p) ==
    {[ok |-> FALSE, holder |-> holder]}
        \cup (IF holder = NoProc THEN {[ok |-> TRUE, holder |-> p]} ELSE {})

\* Config::acquire_lock: the lock over toolchain registration
acquire_lock(p) == flock(tcLock, p)

FileLock_drop_leak(holder, p) == holder

FileLock_drop_of_others(holder, p) == IF holder = p THEN holder ELSE NoProc

\* Drop for FileLock
FileLock_drop(holder, p) == IF holder = p THEN NoProc ELSE holder

-----------------------------------------------------------------------------
(* The build tool's output: lines and the JSON of cargo's messages *)

\* lines of captured output that one build prints at most
MaxLines == 2

\* str::lines: the text is cut after every "\n", and a line that was ended
\* by "\n" loses the "\r" before it; the last line needs no "\n"
RECURSIVE lines_from(_, _)
lines_from(text, cur) ==
    IF text = <<>> THEN (IF cur = <<>> THEN <<>> ELSE <<cur>>)
    ELSE IF Head(text) = "\n"
    THEN << IF cur # <<>> /\ cur[Len(cur)] = "\r"
            THEN SubSeq(cur, 1, Len(cur) - 1) ELSE cur >>
            \o lines_from(Tail(text), <<>>)
    ELSE lines_from(Tail(text), Append(cur, Head(text)))

lines(text) == lines_from(text, <<>>)

json_escape_none(str) == str

\* the content of a JSON string literal: quote, backslash and newline escaped
RECURSIVE json_escape(_)
json_escape(str) ==
    IF str = <<>> THEN <<>>
    ELSE (CASE Head(str) = "\"" -> <<"\\", "\"">>
            [] Head(str) = "\\" -> <<"\\", "\\">>
            [] Head(str) = "\n" -> <<"\\", "n">>
            [] OTHER -> <<Head(str)>>) \o json_escape(Tail(str))

json_string(str) == <<"\"">> \o json_escape(str) \o <<"\"">>

RECURSIVE json_strings(_)
json_strings(strs) ==
    IF strs = <<>> THEN <<>>
    ELSE json_string(Head(strs))
            \o (IF Len(strs) > 1 THEN <<",">> ELSE <<>>) \o json_strings(Tail(strs))

json_array(strs) == <<"[">> \o json_strings(strs) \o <<"]">>

\* result of a parsing step: the value read and the input that follows it
ParseErr == [ok |-> FALSE, val |-> <<>>, rest |-> <<>>]

ParseOk(val, rest) == [ok |-> TRUE, val |-> val, rest |-> rest]

\* reads the content of a string literal up to its closing quote
RECURSIVE read_string(_, _)
read_string(s, acc) ==
    IF s = <<>> \/ Head(s) = "\n" THEN ParseErr
    ELSE IF Head(s) = "\"" THEN ParseOk(acc, Tail(s))
    ELSE IF Head(s) = "\\"
    THEN IF Len(s) < 2 THEN ParseErr
         ELSE IF s[2] \in {"\"", "\\"}
         THEN read_string(SubSeq(s, 3, Len(s)), Append(acc, s[2]))
         ELSE IF s[2] = "n"
         THEN read_string(SubSeq(s, 3, Len(s)), Append(acc, "\n"))
         ELSE ParseErr
    ELSE read_string(Tail(s), Append(acc, Head(s)))

parse_string(s) ==
    IF s # <<>> /\ Head(s) = "\"" THEN read_string(Tail(s), <<>>) ELSE ParseErr

\* reads the elements of an array of strings after the first one
RECURSIVE read_strings(_, _)
read_strings(s, acc) ==
    IF s = <<>> THEN ParseErr
    ELSE IF Head(s) = "]" THEN ParseOk(acc, Tail(s))
    ELSE IF Head(s) = ","
    THEN LET r == parse_string(Tail(s))
         IN  IF r.ok THEN read_strings(r.rest, Append(acc, r.val)) ELSE ParseErr
    ELSE ParseErr

parse_array(s) ==
    IF s = <<>> \/ Head(s) # "[" THEN ParseErr
    ELSE IF Len(s) > 1 /\ s[2] = "]" THEN ParseOk(<<>>, SubSeq(s, 3, Len(s)))
    ELSE LET r == parse_string(Tail(s))
         IN  IF r.ok THEN read_strings(r.rest, <<r.val>>) ELSE ParseErr

\* the part of the input after `token`, which must come first
expect(r, token) ==
    IF r.ok /\ r.rest # <<>> /\ Head(r.rest) = token
    THEN ParseOk(r.val, Tail(r.rest)) ELSE ParseErr

\* struct Profile, and the profiles of cargo's dev and release builds, of a
\* release build with `debug = true` and of a dev build with `debug = false`
Profiles ==
    { [opt_level |-> "0", debuginfo |-> TRUE, test |-> FALSE],
      [opt_level |-> "3", debuginfo |-> FALSE, test |-> FALSE],
      [opt_level |-> "3", debuginfo |-> TRUE, test |-> FALSE],
      [opt_level |-> "0", debuginfo |-> FALSE, test |-> FALSE] }

\* the JSON object of a profile, as one symbol
profile_json(profile) ==
    CASE profile.opt_level = "0" /\ profile.debuginfo -> "{opt_level:0,debuginfo:2,test:false}"
      [] profile.opt_level = "3" /\ ~profile.debuginfo -> "{opt_level:3,debuginfo:null,test:false}"
      [] profile.opt_level = "3" /\ profile.debuginfo -> "{opt_level:3,debuginfo:2,test:false}"
      [] OTHER -> "{opt_level:0,debuginfo:null,test:false}"

parse_profile(s) ==
    IF s = <<>> THEN ParseErr
    ELSE IF \E profile \in Profiles : profile_json(profile) = Head(s)
    THEN ParseOk(CHOOSE profile \in Profiles : profile_json(profile) = Head(s), Tail(s))
    ELSE ParseErr

parse_bool(s) ==
    IF s = <<>> THEN ParseErr
    ELSE IF Head(s) = "true" THEN ParseOk(TRUE, Tail(s))
    ELSE IF Head(s) = "false" THEN ParseOk(FALSE, Tail(s))
    ELSE ParseErr

\* enum CargoMessage, tagged by "reason" in kebab case
NoMessage == [reason |-> "none", filenames |-> <<>>, package_id |-> <<>>,
              profile |-> [opt_level |-> "0", debuginfo |-> FALSE, test |-> FALSE],
              fresh |-> FALSE, args |-> <<>>]

CompilerArtifact(filenames, package_id, profile, fresh) ==
    [NoMessage EXCEPT !.reason = "compiler-artifact", !.filenames = filenames,
                      !.package_id = package_id, !.profile = profile, !.fresh = fresh]

RunWithArgs(args) == [NoMessage EXCEPT !.reason = "run-with-args", !.args = args]

BuildScriptExecuted == [NoMessage EXCEPT !.reason = "build-script-executed"]

BuildFinished == [NoMessage EXCEPT !.reason = "build-finished"]

\* serde_json::to_string(&CargoMessage): the tag first, then the fields
to_string(msg) ==
    <<"{", "\"reason\":", "\"", msg.reason, "\"">>
      \o (CASE msg.reason = "run-with-args" ->
                   <<",", "\"args\":">> \o json_array(msg.args)
            [] msg.reason = "compiler-artifact" ->
                   <<",", "\"package_id\":">> \o json_string(msg.package_id)
                     \o <<",", "\"filenames\":">> \o json_array(msg.filenames)
                     \o <<",", "\"profile\":", profile_json(msg.profile)>>
                     \o <<",", "\"fresh\":", IF msg.fresh THEN "true" ELSE "false">>
            [] OTHER -> <<>>)
      \o <<"}">>

from_str_run_with_args(s) ==
    LET args == parse_array(expect(expect(ParseOk(<<>>, s), ","), "\"args\":").rest)
    IN  IF args.ok /\ args.rest = <<"}">> THEN ParseOk(RunWithArgs(args.val), <<>>)
        ELSE ParseErr

from_str_compiler_artifact(s) ==
    LET package_id ==
            parse_string(expect(expect(ParseOk(<<>>, s), ","), "\"package_id\":").rest)
        filenames ==
            parse_array(expect(expect(package_id, ","), "\"filenames\":").rest)
        profile ==
            parse_profile(expect(expect(filenames, ","), "\"profile\":").rest)
        fresh ==
            parse_bool(expect(expect(profile, ","), "\"fresh\":").rest)
    IN  IF package_id.ok /\ filenames.ok /\ profile.ok /\ fresh.ok /\ fresh.rest = <<"}">>
        THEN ParseOk(CompilerArtifact(filenames.val, package_id.val, profile.val,
                                      fresh.val), <<>>)
        ELSE ParseErr

from_str_lenient(line) ==
    IF Len(line) < 6 \/ SubSeq(line, 1, 3) # <<"{", "\"reason\":", "\"">> \/ line[5] # "\""
    THEN ParseErr
    ELSE LET reason == line[4]
             fields == SubSeq(line, 6, Len(line))
         IN  CASE reason = "run-with-args" /\ fields # <<"}">> -> from_str_run_with_args(fields)
               [] reason = "compiler-artifact" -> from_str_compiler_artifact(fields)
               [] OTHER -> ParseOk(BuildFinished, <<>>)

\* serde_json::from_str::<CargoMessage>(line): an object whose "reason" is
\* one of the four variants and whose fields are those of the variant
from_str(line) ==
    IF Len(line) < 6 \/ SubSeq(line, 1, 3) # <<"{", "\"reason\":", "\"">> \/ line[5] # "\""
    THEN ParseErr
    ELSE LET reason == line[4]
             fields == SubSeq(line, 6, Len(line))
         IN  CASE reason = "run-with-args" -> from_str_run_with_args(fields)
               [] reason = "compiler-artifact" -> from_str_compiler_artifact(fields)
               [] reason = "build-script-executed" /\ fields = <<"}">> ->
                      ParseOk(BuildScriptExecuted, <<>>)
               [] reason = "build-finished" /\ fields = <<"}">> ->
                      ParseOk(BuildFinished, <<>>)
               [] OTHER -> ParseErr

-----------------------------------------------------------------------------
(* Per-process records *)

NoCall == [cmd |-> "none", offline |-> FALSE, is64bit |-> FALSE,
           build_libc |-> FALSE, build_rust |-> FALSE]

NoLoc == [dir |-> NoPath, was |-> NoPath, toolchain |-> NoPath, sysroot |-> NoPath,
          flock |-> FALSE, archive |-> {}]

NoRes == [cmd |-> "none", status |-> "none", err |-> "none"]

\* program names and paths, as strings
Exe == <<"cargo-wasix">>

Wasmer == <<"wasmer">>

\* the artifacts cargo can report: two executables and a library
FooWasm == <<"foo", ".", "wasm">>

BarWasm == <<"bar", ".", "wasm">>

FooRlib == <<"libfoo", ".", "rlib">>

Wasms == {FooWasm, BarWasm}

\* Path::extension: what follows the last "." of the file name, unless the
\* only "." is the first character
extension(file) ==
    LET dots == {k \in 2..Len(file) : file[k] = "."}
    IN  IF dots = {} THEN None
        ELSE LET last == CHOOSE k \in dots : \A m \in dots : m <= k
             IN  Some(SubSeq(file, last + 1, Len(file)))

\* Path::with_extension
with_extension(file, ext) ==
    LET dots == {k \in 2..Len(file) : file[k] = "."}
        stem == IF dots = {} THEN file
                ELSE SubSeq(file, 1, (CHOOSE k \in dots : \A m \in dots : m <= k) - 1)
    IN  stem \o <<".">> \o ext

\* where rmain keeps the module of rustc and the finalized module
temporary_rustc(wasm) == with_extension(wasm, <<"rustc", ".", "wasm">>)

temporary_wasi_in_place(wasm) == wasm

temporary_wasi(wasm) == with_extension(wasm, <<"wasi", ".", "wasm">>)

\* the files of the artifacts in the target directory
TargetPaths ==
    UNION { {wasm, temporary_rustc(wasm), temporary_wasi(wasm)} : wasm \in Wasms }

try_demangle_underscore_only(name) ==
    LET RECURSIVE elements(_)
        elements(s) ==
            IF s = <<>> THEN ParseErr
            ELSE IF Head(s) = "E" THEN ParseOk(<<>>, Tail(s))
            ELSE IF Head(s) \notin {ToString(d) : d \in 0..9} THEN ParseErr
            ELSE LET RECURSIVE read_len(_, _)
                     read_len(t, len) ==
                         IF t # <<>> /\ Head(t) \in {ToString(d) : d \in 0..9}
                         THEN read_len(Tail(t),
                                       len * 10 + (CHOOSE d \in 0..9 : ToString(d) = Head(t)))
                         ELSE [len |-> len, rest |-> t]
                     l == read_len(s, 0)
                 IN  IF Len(l.rest) <= l.len THEN ParseErr
                     ELSE LET more == elements(SubSeq(l.rest, l.len + 1, Len(l.rest)))
                          IN  IF more.ok
                              THEN ParseOk(<<SubSeq(l.rest, 1, l.len)>> \o more.val, more.rest)
                              ELSE ParseErr
        sym == IF StartsWith(name, <<"_", "Z", "N">>)
               THEN elements(SubSeq(name, 4, Len(name)))
               ELSE ParseErr
    IN  IF sym.ok /\ sym.rest = <<>> THEN sym ELSE ParseErr

\* rustc_demangle::try_demangle on a name without `$`, `.` and `R`: after
\* `_ZN`, `ZN` or `__ZN` come the elements, each a decimal length and that
\* many characters, then `E` and nothing more; Ok holds the elements
try_demangle(name) ==
    LET RECURSIVE elements(_)
        elements(s) ==
            IF s = <<>> THEN ParseErr
            ELSE IF Head(s) = "E" THEN ParseOk(<<>>, Tail(s))
            ELSE IF Head(s) \notin {ToString(d) : d \in 0..9} THEN ParseErr
            ELSE LET RECURSIVE read_len(_, _)
                     read_len(t, len) ==
                         IF t # <<>> /\ Head(t) \in {ToString(d) : d \in 0..9}
                         THEN read_len(Tail(t),
                                       len * 10 + (CHOOSE d \in 0..9 : ToString(d) = Head(t)))
                         ELSE [len |-> len, rest |-> t]
                     l == read_len(s, 0)
                 IN  IF Len(l.rest) <= l.len THEN ParseErr
                     ELSE LET more == elements(SubSeq(l.rest, l.len + 1, Len(l.rest)))
                          IN  IF more.ok
                              THEN ParseOk(<<SubSeq(l.rest, 1, l.len)>> \o more.val, more.rest)
                              ELSE ParseErr
        sym == IF StartsWith(name, <<"_", "Z", "N">>)
               THEN elements(SubSeq(name, 4, Len(name)))
               ELSE IF StartsWith(name, <<"Z", "N">>)
               THEN elements(SubSeq(name, 3, Len(name)))
               ELSE IF StartsWith(name, <<"_", "_", "Z", "N">>)
               THEN elements(SubSeq(name, 5, Len(name)))
               ELSE ParseErr
    IN  IF sym.ok /\ sym.rest = <<>> THEN sym ELSE ParseErr

\* sym.to_string(): the elements, `::` between them
RECURSIVE sym_to_string(_)
sym_to_string(elements) ==
    IF elements = <<>> THEN <<>>
    ELSE Head(elements)
            \o (IF Tail(elements) = <<>> THEN <<>>
                ELSE <<":", ":">> \o sym_to_string(Tail(elements)))

\* the names a function of a module can have, character by character:
\* `_ZN1a3h0fE`, `ZN1a3h0fE` and `__ZN1a3h0fE` (a::h0f with each prefix),
\* `_ZN10abcdefghij1b3h0fE`, `main`, `_ZN1aEv` (a name of C++), `_ZN9aE`
\* (the length runs past the end), `_ZNE` (no element) and `_ZN6_ZN1aEE`
\* (one element, `_ZN1aE`)
FunctionNames ==
    { <<"_", "Z", "N", "1", "a", "3", "h", "0", "f", "E">>,
      <<"Z", "N", "1", "a", "3", "h", "0", "f", "E">>,
      <<"_", "_", "Z", "N", "1", "a", "3", "h", "0", "f", "E">>,
      <<"_", "Z", "N", "1", "0", "a", "b", "c", "d", "e", "f", "g", "h", "i", "j",
        "1", "b", "3", "h", "0", "f", "E">>,
      <<"m", "a", "i", "n">>,
      <<"_", "Z", "N", "1", "a", "E", "v">>,
      <<"_", "Z", "N", "9", "a", "E">>,
      <<"_", "Z", "N", "E">>,
      <<"_", "Z", "N", "6", "_", "Z", "N", "1", "a", "E", "E">> }

\* content of a file of the target directory: which module it is (the output
\* of rustc, or a module written by the post-processing), the compilation it
\* comes from (1: the one cargo reports, 0: an earlier one), the custom
\* sections it has, the names of its functions and whether wasm-opt wrote it
Absent == [kind |-> "absent", gen |-> 0, dwarf |-> FALSE, name |-> FALSE,
           producers |-> FALSE, funcs |-> <<>>, opt |-> FALSE]

\* what rustc links for a profile
RustcOutput(gen, profile) ==
    [kind |-> "rustc", gen |-> gen, dwarf |-> profile.debuginfo, name |-> TRUE,
     producers |-> TRUE,
     funcs |-> << <<"_", "Z", "N", "1", "a", "3", "h", "0", "f", "E">> >>,
     opt |-> FALSE]

\* a module finalized by an earlier invocation
Finalized(gen) ==
    [kind |-> "wasi", gen |-> gen, dwarf |-> FALSE, name |-> TRUE,
     producers |-> FALSE, funcs |-> << <<"a", ":", ":", "h", "0", "f">> >>,
     opt |-> TRUE]

\* struct ManifestConfig
NoManifestConfig == [wasm_opt |-> None, wasm_name_section |-> None,
                     wasm_producers_section |-> None]

\* the project: the stdout of `cargo <subcommand>` and of the runners it
\* starts, the exit status of cargo, the [package.metadata] of the manifest,
\* the names of the functions of its executables
NoProject == [json |-> <<>>, status |-> "0", manifest_config |-> NoManifestConfig,
              funcs |-> << <<"_", "Z", "N", "1", "a", "3", "h", "0", "f", "E">> >>]

\* struct CargoBuild, Default
NoBuild == [wasm_bindgen |-> None, wasms |-> <<>>, runs |-> <<>>,
            manifest_config |-> NoManifestConfig]

\* an error on its way to main: what failed, the file or the variable its
\* message names, the file its context names and, for a ProcessError, the
\* status, the output it holds and whether it is hidden
NoError == [kind |-> "none", what |-> <<>>, context |-> <<>>, status |-> "none",
            stdout |-> <<>>, stderr |-> <<>>, hidden |-> FALSE]

\* anyhow::bail!, or the error of a call that is not a ProcessError
Error(kind, what) == [NoError EXCEPT !.kind = kind, !.what = what]

\* the environment variables main and rmain read, and whether `wasmer` is
\* found on the search path
NoEnv == [shim |-> FALSE, runner_var |-> "none", runner |-> <<>>, wasmer |-> FALSE]

\* main, rmain, execute_cargo, process_wasm, run_wasm_opt, run_or_download,
\* and the verbose flag of the Config
NoFrame == [env |-> NoEnv, argv |-> <<>>, is64bit |-> FALSE, verbose |-> FALSE,
            wasix_runner |-> <<>>, using_default |-> FALSE,
            cargo |-> [shim |-> FALSE],
            json |-> <<>>, line |-> 0, build |-> NoBuild, wasm |-> 0, run |-> 0,
            is_overridden |-> FALSE, bytes |-> Absent,
            cmd |-> <<>>, spawned |-> <<>>, steps |-> {}, exit |-> "none", err |-> NoError]

\* a call returns: its locals go out of scope, which drops the lock it took
\* (`_lock` of ensure_toolchain, `_flock` of download; build_toolchain has none)
Return(p, status, err) ==
    /\ pc' = [pc EXCEPT ![p] = "done"]
    /\ res' = [res EXCEPT ![p] = [cmd |-> call[p].cmd, status |-> status, err |-> err]]
    /\ tcLock' = IF call[p].cmd = "ensure_toolchain" THEN FileLock_drop(tcLock, p) ELSE tcLock
    /\ dlLock' = IF call[p].cmd = "download" /\ loc[p].flock
                 THEN FileLock_drop(dlLock, p) ELSE dlLock
    /\ UNCHANGED mainVars

Goto(p, label) ==
    /\ pc' = [pc EXCEPT ![p] = label]
    /\ UNCHANGED <<res, tcLock, dlLock>>
    /\ UNCHANGED mainVars

Did(p, op) == work' = [work EXCEPT ![p] = @ \cup {op}]

-----------------------------------------------------------------------------
(* Initial states *)

\* the registrations and files an invocation can find: the reserved name is
\* unregistered or points at an older toolchain directory, another toolchain
\* may carry a name that starts with the reserved one, and an interrupted
\* extraction may have left any part of the cached tool
InitFiles ==
    /\ \E old \in {NoPath, OldDir}, user \in {NoPath, <<"/user">>} :
          registry = [n \in Names |->
                         IF n = StableName THEN StableDir
                         ELSE IF n = RUSTUP_TOOLCHAIN_NAME THEN old ELSE user]
    /\ \E e \in SUBSET (Entries \ {"dir"}) :
          dirs = [d \in ToolchainDirs |->
                     IF d = OldDir /\ registry[RUSTUP_TOOLCHAIN_NAME] = OldDir
                     THEN {"dir"} \cup e ELSE {}]
    /\ libc \in BOOLEAN
    /\ cache \in SUBSET SubPaths
    /\ tcLock = NoProc
    /\ dlLock = NoProc
    /\ files = [path \in TargetPaths |-> Absent]
    /\ project = NoProject

InitProcs ==
    /\ pc = [p \in Procs |-> "idle"]
    /\ call = [p \in Procs |-> NoCall]
    /\ loc = [p \in Procs |-> NoLoc]
    /\ res = [p \in Procs |-> NoRes]
    /\ work = [p \in Procs |-> {}]
    /\ frame = [p \in Procs |-> NoFrame]
    /\ stdout = [p \in Procs |-> <<>>]

\* concurrent invocations of the tool: every process is one invocation
Init ==
    /\ InitFiles
    /\ InitProcs
    /\ calls = [p \in Procs |-> 1]

\* the tool invoked again and again, one invocation after the other
InitSeq ==
    /\ InitFiles
    /\ InitProcs
    /\ calls = [p \in Procs |-> IF p = "p1" THEN MaxCalls ELSE 0]

-----------------------------------------------------------------------------
(* rmain: the calls an invocation makes *)

Begin(p, c, label) ==
    /\ pc[p] = "idle"
    /\ calls[p] > 0
    /\ calls' = [calls EXCEPT ![p] = @ - 1]
    /\ call' = [call EXCEPT ![p] = c]
    /\ pc' = [pc EXCEPT ![p] = label]
    /\ UNCHANGED <<registry, dirs, libc, cache, tcLock, dlLock, loc, res, work>>
    /\ UNCHANGED mainVars

\* toolchain::ensure_toolchain(config, is64bit)
rmain_ensure_toolchain(p) ==
    \E offline \in BOOLEAN, is64bit \in BOOLEAN :
        Begin(p, [NoCall EXCEPT !.cmd = "ensure_toolchain", !.offline = offline,
                                !.is64bit = is64bit], "et_lock")

\* Subcommand::BuildToolchain, with BuildToochainOptions::from_env
rmain_build_toolchain(p) ==
    \E o \in {<<TRUE, TRUE>>, <<TRUE, FALSE>>, <<FALSE, TRUE>>} :
        Begin(p, [NoCall EXCEPT !.cmd = "build_toolchain", !.build_libc = o[1],
                                !.build_rust = o[2]], "bt_libc")

\* install_wasm_opt: download(url, name, base_path, sub_paths, config)
install_wasm_opt(p) ==
    Begin(p, [NoCall EXCEPT !.cmd = "download"], "dl_flock")

\* the invocation is over: nothing of it remains but its outcome
Exit(p) ==
    /\ pc[p] = "done"
    /\ pc' = [pc EXCEPT ![p] = "idle"]
    /\ call' = [call EXCEPT ![p] = NoCall]
    /\ loc' = [loc EXCEPT ![p] = NoLoc]
    /\ work' = [work EXCEPT ![p] = {}]
    /\ UNCHANGED <<registry, dirs, libc, cache, tcLock, dlLock, res, calls>>
    /\ UNCHANGED mainVars

-----------------------------------------------------------------------------
(* toolchain.rs: RustupToolchain::link *)

link_find_keeps_registration(p) ==
    /\ pc[p] = "lk_find"
    /\ UNCHANGED <<registry, dirs, libc, cache, call, loc, work, calls>>
    /\ IF ~EntryExists(dirs, loc[p].dir, "bin/rustc")
       THEN Return(p, "err", "link")
       ELSE \/ Return(p, "err", "link")
            \/ Goto(p, "lk_link")

\* link(name, dir): the sanity check on dir/bin/rustc, then find_by_name(name)?
\* to decide whether a registration has to be removed first
link_find(p) ==
    /\ pc[p] = "lk_find"
    /\ UNCHANGED <<registry, dirs, libc, cache, call, loc, work, calls>>
    /\ IF ~EntryExists(dirs, loc[p].dir, "bin/rustc")
       THEN Return(p, "err", "link")
       ELSE \/ Return(p, "err", "link")
            \/ IF find_by_name(RUSTUP_TOOLCHAIN_NAME, Listing(registry)).some
               THEN Goto(p, "lk_remove")
               ELSE Goto(p, "lk_link")

link_remove_fails_late(p) ==
    /\ pc[p] = "lk_remove"
    /\ UNCHANGED <<dirs, libc, cache, call, loc, calls>>
    /\ \/ /\ Return(p, "err", "link")
          /\ registry' = [registry EXCEPT ![RUSTUP_TOOLCHAIN_NAME] = NoPath]
          /\ UNCHANGED work
       \/ /\ registry' = [registry EXCEPT ![RUSTUP_TOOLCHAIN_NAME] = NoPath]
          /\ Did(p, "remove")
          /\ Goto(p, "lk_link")

\* `rustup toolchain remove <name>`
link_remove(p) ==
    /\ pc[p] = "lk_remove"
    /\ UNCHANGED <<dirs, libc, cache, call, loc, calls>>
    /\ \/ /\ Return(p, "err", "link")
          /\ UNCHANGED <<registry, work>>
       \/ /\ registry' = [registry EXCEPT ![RUSTUP_TOOLCHAIN_NAME] = NoPath]
          /\ Did(p, "remove")
          /\ Goto(p, "lk_link")

\* `rustup toolchain link <name> <dir>`; Ok(Self { name, path: dir }) goes to
\* the caller: ensure_toolchain validates it, build_toolchain returns
link_link(p) ==
    /\ pc[p] = "lk_link"
    /\ UNCHANGED <<dirs, libc, cache, call, calls>>
    /\ \/ /\ Return(p, "err", "link")
          /\ UNCHANGED <<registry, work, loc>>
       \/ /\ registry' = [registry EXCEPT ![RUSTUP_TOOLCHAIN_NAME] = loc[p].dir]
          /\ Did(p, "link")
          /\ loc' = [loc EXCEPT ![p].toolchain = loc[p].dir]
          /\ IF call[p].cmd = "ensure_toolchain"
             THEN Goto(p, "et_validate")
             ELSE Return(p, "ok", "none")

-----------------------------------------------------------------------------
(* toolchain.rs: ensure_toolchain *)

ensure_toolchain_lock_unchecked(p) ==
    /\ pc[p] = "et_lock"
    /\ UNCHANGED <<registry, dirs, libc, cache, call, loc, work, calls>>
    /\ \E r \in acquire_lock(p) :
          /\ tcLock' = r.holder
          /\ pc' = [pc EXCEPT ![p] = "et_find"]
          /\ UNCHANGED <<res, dlLock>>
          /\ UNCHANGED mainVars

\* let _lock = Config::acquire_lock()?;
ensure_toolchain_lock(p) ==
    /\ pc[p] = "et_lock"
    /\ UNCHANGED <<registry, dirs, libc, cache, call, loc, work, calls>>
    /\ \E r \in acquire_lock(p) :
          IF r.ok
          THEN /\ tcLock' = r.holder
               /\ pc' = [pc EXCEPT ![p] = "et_find"]
               /\ UNCHANGED <<res, dlLock>>
               /\ UNCHANGED mainVars
          ELSE Return(p, "err", "toolchain")

ensure_toolchain_find_ignores_offline(p) ==
    /\ pc[p] = "et_find"
    /\ UNCHANGED <<registry, dirs, libc, cache, call, work, calls>>
    /\ \/ /\ Return(p, "err", "toolchain")
          /\ UNCHANGED loc
       \/ LET chain == find_by_name(RUSTUP_TOOLCHAIN_NAME, Listing(registry))
          IN  IF chain.some
              THEN /\ loc' = [loc EXCEPT ![p].toolchain = chain.val]
                   /\ Goto(p, "et_validate")
              ELSE /\ UNCHANGED loc
                   /\ Goto(p, "ip_download")

\* RustupToolchain::find_by_name(RUSTUP_TOOLCHAIN_NAME)?, and the choice
\* between the registered toolchain, the installation and the offline error
ensure_toolchain_find(p) ==
    /\ pc[p] = "et_find"
    /\ UNCHANGED <<registry, dirs, libc, cache, call, work, calls>>
    /\ \/ /\ Return(p, "err", "toolchain")
          /\ UNCHANGED loc
       \/ LET chain == find_by_name(RUSTUP_TOOLCHAIN_NAME, Listing(registry))
          IN  IF chain.some
              THEN /\ loc' = [loc EXCEPT ![p].toolchain = chain.val]
                   /\ Goto(p, "et_validate")
              ELSE IF ~call[p].offline
              THEN /\ UNCHANGED loc
                   /\ Goto(p, "ip_download")
              ELSE /\ UNCHANGED loc
                   /\ Return(p, "err", "offline")

\* install_prebuilt_toolchain(&Config::toolchain_dir()?)?: guess_host_target,
\* then download_toolchain; its directory is removed first when it exists,
\* and a failure on the way leaves what was unpacked until then
install_prebuilt_toolchain(p) ==
    /\ pc[p] = "ip_download"
    /\ UNCHANGED <<registry, libc, cache, call, calls>>
    /\ \/ \* no prebuilt toolchain for this host, or no release asset for it
          /\ Return(p, "err", "download")
          /\ UNCHANGED <<dirs, loc, work>>
       \/ \* a request or an unpacking fails
          /\ \E left \in {dirs[PrebuiltDir], {"dir"}} :
                dirs' = [dirs EXCEPT ![PrebuiltDir] = left]
          /\ Did(p, "download")
          /\ Return(p, "err", "download")
          /\ UNCHANGED loc
       \/ \* both archives unpacked
          /\ \E e \in SUBSET (Entries \ {"dir"}) :
                dirs' = [dirs EXCEPT ![PrebuiltDir] = {"dir"} \cup e]
          /\ Did(p, "download")
          /\ loc' = [loc EXCEPT ![p].dir = PrebuiltDir,
                                ![p].was = registry[RUSTUP_TOOLCHAIN_NAME]]
          /\ Goto(p, "lk_find")

ensure_toolchain_validate_no_assert(p) ==
    /\ pc[p] = "et_validate"
    /\ UNCHANGED <<registry, dirs, libc, cache, call, work, calls>>
    /\ \/ /\ Return(p, "err", "toolchain")
          /\ UNCHANGED loc
       \/ \E out \in SysrootOutputs(registry, dirs, RUSTUP_TOOLCHAIN_NAME) :
             LET rust_sysroot == Trim(out)
             IN  /\ loc' = [loc EXCEPT ![p].sysroot = rust_sysroot]
                 /\ IF ~EntryExists(dirs, rust_sysroot, lib_name(call[p].is64bit))
                    THEN Return(p, "err", "toolchain")
                    ELSE Return(p, "ok", "none")

\* `rustc +<name> --print sysroot`, assert_eq!(toolchain.path, rust_sysroot),
\* and the check of the library directory of the requested width
ensure_toolchain_validate(p) ==
    /\ pc[p] = "et_validate"
    /\ UNCHANGED <<registry, dirs, libc, cache, call, work, calls>>
    /\ \/ /\ Return(p, "err", "toolchain")
          /\ UNCHANGED loc
       \/ \E out \in SysrootOutputs(registry, dirs, RUSTUP_TOOLCHAIN_NAME) :
             LET rust_sysroot == Trim(out)
             IN  /\ loc' = [loc EXCEPT ![p].sysroot = rust_sysroot]
                 /\ IF loc[p].toolchain # rust_sysroot
                    THEN Return(p, "panic", "sysroot")
                    ELSE IF ~EntryExists(dirs, rust_sysroot, lib_name(call[p].is64bit))
                    THEN Return(p, "err", "toolchain")
                    ELSE Return(p, "ok", "none")

-----------------------------------------------------------------------------
(* toolchain.rs: build_toolchain *)

\* setup_apt()? where apt-get exists, build_libc when requested, then
\* ensure_libc_dir_valid; Ok(None) when the compiler is not to be built
build_toolchain_libc(p) ==
    /\ pc[p] = "bt_libc"
    /\ UNCHANGED <<registry, dirs, cache, call, loc, calls>>
    /\ \/ /\ Return(p, "err", "build")
          /\ UNCHANGED <<libc, work>>
       \/ IF call[p].build_libc
          THEN \/ /\ Return(p, "err", "build")
                  /\ Did(p, "build")
                  /\ libc' \in {libc, FALSE}
               \/ /\ libc' = TRUE
                  /\ Did(p, "build")
                  /\ IF ~call[p].build_rust
                     THEN Return(p, "ok", "none") ELSE Goto(p, "bt_rust")
          ELSE /\ UNCHANGED <<libc, work>>
               /\ IF ~libc
                  THEN Return(p, "err", "build")
                  ELSE IF ~call[p].build_rust
                  THEN Return(p, "ok", "none") ELSE Goto(p, "bt_rust")

\* build_rust: ensure_libc_dir_valid, the two stages, the stage2 directory
build_toolchain_rust(p) ==
    /\ pc[p] = "bt_rust"
    /\ UNCHANGED <<registry, libc, cache, call, calls>>
    /\ IF ~libc
       THEN /\ Return(p, "err", "build")
            /\ UNCHANGED <<dirs, loc, work>>
       ELSE \/ /\ Return(p, "err", "build")
               /\ Did(p, "build")
               /\ UNCHANGED <<dirs, loc>>
            \/ /\ dirs' = [dirs EXCEPT ![Stage2Dir] = Entries]
               /\ Did(p, "build")
               /\ loc' = [loc EXCEPT ![p].dir = Stage2Dir,
                                     ![p].was = registry[RUSTUP_TOOLCHAIN_NAME]]
               /\ Goto(p, "lk_find")

-----------------------------------------------------------------------------
(* lib.rs: download *)

all_exist_any(present, sub_paths) == \E sp \in sub_paths : sp \in present

\* sub_paths.iter().all(|sub_path| parent.join(sub_path).exists())
all_exist(present, sub_paths) == \A sp \in sub_paths : sp \in present

\* let _flock = utils::flock(&config.cache().root().join("downloading"));
\* the Result is bound, not inspected
download_flock(p) ==
    /\ pc[p] = "dl_flock"
    /\ UNCHANGED <<registry, dirs, libc, cache, call, work, calls, res, tcLock>>
    /\ UNCHANGED mainVars
    /\ \E r \in flock(dlLock, p) :
          /\ dlLock' = r.holder
          /\ loc' = [loc EXCEPT ![p].flock = r.ok]
          /\ pc' = [pc EXCEPT ![p] = "dl_check"]

\* if all sub-paths exist: return Ok(())
download_check(p) ==
    /\ pc[p] = "dl_check"
    /\ UNCHANGED <<registry, dirs, libc, cache, call, loc, work, calls>>
    /\ IF all_exist(cache, SubPaths)
       THEN Return(p, "ok", "none")
       ELSE Goto(p, "dl_get")

\* let response = utils::get(url)?; the archive holds any of the sub-paths
download_get(p) ==
    /\ pc[p] = "dl_get"
    /\ UNCHANGED <<registry, dirs, libc, cache, call, calls>>
    /\ Did(p, "fetch")
    /\ \/ /\ Return(p, "err", "fetch")
          /\ UNCHANGED loc
       \/ \E archive \in SUBSET SubPaths :
             /\ loc' = [loc EXCEPT ![p].archive = archive]
             /\ Goto(p, "dl_extract")

\* the closure that unpacks every entry that ends with a sub-path, then
\* fails if a sub-path is still missing; an I/O error stops it on the way
download_extract(p) ==
    /\ pc[p] = "dl_extract"
    /\ UNCHANGED <<registry, dirs, libc, call, loc, work, calls>>
    /\ \/ \E unpacked \in SUBSET loc[p].archive :
             /\ cache' = cache \cup unpacked
             /\ Return(p, "err", "fetch")
       \/ /\ cache' = cache \cup loc[p].archive
          /\ IF \E sp \in SubPaths : sp \notin cache'
             THEN Return(p, "err", "fetch")
             ELSE Return(p, "ok", "none")

-----------------------------------------------------------------------------
(* lib.rs: what an orchestration reads from outside *)

\* the hook of cargo that names the program that runs a binary of the target
runner_env_var(is64bit) ==
    IF is64bit THEN "CARGO_TARGET_WASM64_WASMER_WASI_RUNNER"
    ELSE "CARGO_TARGET_WASM32_WASMER_WASI_RUNNER"

\* programs of the search path besides `wasmer`, a runtime installed
\* outside of it, and a name that is neither a file nor a program
Echo == <<"echo">>

RuntimePath == <<"/opt/runtime">>

Nowhere == <<"nowhere">>

\* Path::exists
path_exists(path) == path = RuntimePath

which_always(env, name) == TRUE

\* which::which(name).is_ok()
which(env, name) ==
    \/ name = Echo
    \/ name = RuntimePath
    \/ name = Wasmer /\ env.wasmer

\* the command lines of the user: `cargo wasix <subcommand>`
UserArgvs ==
    {<<Exe, <<"wasix">>>>}
        \cup {<<Exe, <<"wasix">>, <<sub>>>> :
                 sub \in {"build", "build-toolchain", "run", "run64", "test", "bench",
                          "check", "tree", "fix", "--version", "frobnicate"}}

\* the command lines cargo gives to the runner of a binary: the binary and
\* the arguments of the user
ShimArgvs ==
    { <<Exe, FooWasm>>,
      <<Exe, FooWasm, <<"a">>, <<"-", "b">>>>,
      <<Exe, BarWasm, <<"\"", "c", "\\", "\n", "]">>>> }

\* env::args().skip(1), env::args_os().skip(2)
skip(argv, n) == SubSeq(argv, n + 1, Len(argv))

\* the subcommand and the target width an argument selects
Subcommand(arg) ==
    CASE arg = <<"build">> -> [name |-> "Build", is64bit |-> FALSE]
      [] arg = <<"build64">> -> [name |-> "Build", is64bit |-> TRUE]
      [] arg = <<"build-toolchain">> -> [name |-> "BuildToolchain", is64bit |-> FALSE]
      [] arg = <<"run">> -> [name |-> "Run", is64bit |-> FALSE]
      [] arg = <<"run64">> -> [name |-> "Run", is64bit |-> TRUE]
      [] arg = <<"test">> -> [name |-> "Test", is64bit |-> FALSE]
      [] arg = <<"test64">> -> [name |-> "Test", is64bit |-> TRUE]
      [] arg = <<"bench">> -> [name |-> "Bench", is64bit |-> FALSE]
      [] arg = <<"bench64">> -> [name |-> "Bench", is64bit |-> TRUE]
      [] arg = <<"check">> -> [name |-> "Check", is64bit |-> FALSE]
      [] arg = <<"check64">> -> [name |-> "Check", is64bit |-> TRUE]
      [] arg = <<"tree">> -> [name |-> "Tree", is64bit |-> FALSE]
      [] arg = <<"tree64">> -> [name |-> "Tree", is64bit |-> TRUE]
      [] arg = <<"fix">> -> [name |-> "Fix", is64bit |-> FALSE]
      [] arg \in {<<"version">>, <<"-V">>, <<"--version">>} ->
             [name |-> "version", is64bit |-> FALSE]
      [] OTHER -> [name |-> "help", is64bit |-> FALSE]

\* the lines cargo and the programs it runs print to the captured stdout
PackageId == <<"foo", " ", "1.0.0">>

ArtifactLines ==
    { to_string(CompilerArtifact(<<FooRlib, FooWasm>>, PackageId, profile, fresh)) :
          profile \in Profiles, fresh \in BOOLEAN }
        \cup { to_string(CompilerArtifact(<<BarWasm, FooWasm>>, PackageId,
                   [opt_level |-> "3", debuginfo |-> FALSE, test |-> FALSE], FALSE)),
               to_string(CompilerArtifact(<<FooRlib>>, <<"wasm-bindgen", " ", "0.2.84">>,
                   [opt_level |-> "0", debuginfo |-> TRUE, test |-> FALSE], TRUE)) }

\* what an invocation with the marker prints, for each of its command lines
ShimLines == { to_string(RunWithArgs(skip(argv, 1))) : argv \in ShimArgvs }

\* every line is ended by "\n"
RECURSIVE text_of(_)
text_of(ls) == IF ls = <<>> THEN <<>> ELSE Head(ls) \o <<"\n">> \o text_of(Tail(ls))

\* the artifacts a text reports
reported(text) ==
    LET ls == lines(text)
        arts == {k \in 1..Len(ls) :
                    from_str(ls[k]).ok /\ from_str(ls[k]).val.reason = "compiler-artifact"}
    IN  UNION { { [line |-> k, file |-> from_str(ls[k]).val.filenames[m],
                   profile |-> from_str(ls[k]).val.profile,
                   fresh |-> from_str(ls[k]).val.fresh] :
                     m \in 1..Len(from_str(ls[k]).val.filenames) } : k \in arts }

\* a text cargo can print in one build: no file is reported twice, and a
\* file that was compiled in this build has no finalized module of this
\* compilation yet
CargoPrints(text, target) ==
    \A a \in reported(text) :
       /\ \A b \in reported(text) : a.file = b.file => a = b
       /\ (a.file \in Wasms /\ ~a.fresh) => target[temporary_wasi(a.file)].gen = 0

\* the target directory once cargo has run: the module of every reported
\* executable is at its conventional path, linked from cargo's own cache
cargo_writes(target, text, funcs) ==
    [path \in TargetPaths |->
        IF \E a \in reported(text) : a.file = path
        THEN [RustcOutput(1, (CHOOSE a \in reported(text) : a.file = path).profile)
                 EXCEPT !.funcs = funcs]
        ELSE target[path]]

-----------------------------------------------------------------------------
(* lib.rs: main, rmain, execute_cargo *)

check_success_ok(status, out, errout) == None

\* utils::check_success: Ok for a zero status (None here), a ProcessError
\* with the status and the output it is given otherwise
check_success(status, out, errout) ==
    IF status = "0" THEN None
    ELSE Some([NoError EXCEPT !.kind = "ProcessError", !.status = status,
                              !.stdout = out, !.stderr = errout])

\* ExitStatus::code: the exit code, or nothing for a child that a signal
\* ended
code(status) == IF status = "SIGKILL" THEN None ELSE Some(status)

\* the number an exit code stands for
number(c) == CASE c = "0" -> 0 [] c = "1" -> 1 [] c = "101" -> 101 [] c = "200" -> 200

hide_normal_process_exit_verbose(err, verbose) ==
    IF err.kind = "ProcessError" /\ code(err.status).some
          /\ number(code(err.status).val) < 128
          /\ err.stdout = <<>> /\ err.stderr = <<>>
    THEN [err EXCEPT !.hidden = TRUE] ELSE err

\* utils::hide_normal_process_exit
hide_normal_process_exit(err, verbose) ==
    IF verbose THEN err
    ELSE IF err.kind # "ProcessError" THEN err
    ELSE IF /\ code(err.status).some
            /\ 0 <= number(code(err.status).val)
            /\ number(code(err.status).val) < 128
            /\ err.stdout = <<>> /\ err.stderr = <<>>
    THEN [err EXCEPT !.hidden = TRUE]
    ELSE err

\* utils::normal_process_exit_code
normal_process_exit_code(err) ==
    IF err.kind # "ProcessError" THEN None
    ELSE IF ~err.hidden THEN None
    ELSE code(err.status)

\* Config::print_error: a hidden error ends the process with the code of
\* the child and nothing is printed; any other error is printed, and the
\* caller goes on
print_error(err) == normal_process_exit_code(err)

with_context_none(err, path) == err

\* result.with_context(|| format!("failed to process wasm at `{}`", ..))
with_context(err, path) == [err EXCEPT !.context = path]

\* the process ends: `return` of main (0), a panic (101), or, for an Err of
\* rmain, print_error and exit(1)
exit(p, fr, status, err) ==
    /\ pc' = [pc EXCEPT ![p] = "exited"]
    /\ frame' = [frame EXCEPT ![p] =
                    [fr EXCEPT !.exit = IF status = "1" /\ print_error(err).some
                                        THEN print_error(err).val ELSE status,
                               !.err = err]]

\* rmain goes on with its next statement
goto(p, fr, label) ==
    /\ pc' = [pc EXCEPT ![p] = label]
    /\ frame' = [frame EXCEPT ![p] = fr]

println(p, line) == stdout' = [stdout EXCEPT ![p] = Append(@, line)]

\* a function of toolchain.rs or download is called: its frame is new
calls_into(p, c, label) ==
    /\ call' = [call EXCEPT ![p] = c]
    /\ loc' = [loc EXCEPT ![p] = NoLoc]
    /\ pc' = [pc EXCEPT ![p] = label]

\* main: with the marker of the runner in the environment, print the
\* arguments as a RunWithArgs message and return; otherwise rmain
main(p) ==
    /\ pc[p] = "idle"
    /\ calls[p] > 0
    /\ calls' = [calls EXCEPT ![p] = @ - 1]
    /\ UNCHANGED <<registry, dirs, libc, cache, tcLock, dlLock, call, loc, res, work, files>>
    /\ UNCHANGED project
    /\ IF frame[p].env.shim
       THEN /\ println(p, to_string(RunWithArgs(skip(frame[p].argv, 1))))
            /\ exit(p, frame[p], "0", NoError)
       ELSE /\ goto(p, frame[p], "rmain")
            /\ UNCHANGED stdout

\* rmain up to the call of build_toolchain or ensure_toolchain: the cache,
\* the subcommand, the runner and the check that it can be found
rmain(p) ==
    /\ pc[p] = "rmain"
    /\ UNCHANGED project
    /\ UNCHANGED <<registry, dirs, libc, cache, tcLock, dlLock, res, work, calls, files>>
    /\ LET args == skip(frame[p].argv, 2)
           subcommand == IF args # <<>> THEN Subcommand(Head(args))
                         ELSE [name |-> "help", is64bit |-> FALSE]
           is64bit == subcommand.is64bit
           env == frame[p].env
           using_default == env.runner_var # runner_env_var(is64bit)
           wasix_runner == IF using_default THEN Wasmer ELSE env.runner
           verbose == \E k \in 2..Len(args) :
                         \/ StartsWith(args[k], <<"--verbose">>)
                         \/ StartsWith(args[k], <<"-v">>)
           fr == [frame[p] EXCEPT !.is64bit = is64bit, !.wasix_runner = wasix_runner,
                                  !.using_default = using_default,
                                  !.verbose = verbose]
       IN  \/ \* config.load_cache()?
              /\ exit(p, frame[p], "1", Error("load_cache", <<>>))
              /\ UNCHANGED <<call, loc, stdout>>
           \/ CASE subcommand.name = "version" ->
                      /\ println(p, <<"cargo-wasix", " ", "0.1">>)
                      /\ exit(p, frame[p], "0", NoError)
                      /\ UNCHANGED <<call, loc>>
                [] subcommand.name = "help" ->
                      /\ println(p, <<"HELP">>)
                      /\ exit(p, frame[p], "0", NoError)
                      /\ UNCHANGED <<call, loc>>
                [] subcommand.name = "BuildToolchain" ->
                      /\ UNCHANGED stdout
                      /\ \/ \* BuildToochainOptions::from_env()?
                            /\ exit(p, fr, "1", Error("from_env", <<>>))
                            /\ UNCHANGED <<call, loc>>
                         \/ \E o \in {<<TRUE, TRUE>>, <<TRUE, FALSE>>, <<FALSE, TRUE>>} :
                               /\ calls_into(p, [NoCall EXCEPT !.cmd = "build_toolchain",
                                                    !.build_libc = o[1], !.build_rust = o[2]],
                                             "bt_libc")
                               /\ frame' = [frame EXCEPT ![p] =
                                              [fr EXCEPT !.steps = @ \cup {"build_toolchain"}]]
                [] /\ subcommand.name \in {"Run", "Bench", "Test"}
                   /\ ~using_default
                   /\ ~(path_exists(wasix_runner) \/ which(env, wasix_runner)) ->
                      /\ exit(p, fr, "1", Error("runner", <<runner_env_var(is64bit)>>))
                      /\ UNCHANGED <<call, loc, stdout>>
                [] /\ subcommand.name \in {"Run", "Bench", "Test"}
                   /\ using_default
                   /\ ~which(env, wasix_runner) ->
                      /\ exit(p, fr, "1", Error("runner", <<"install">>))
                      /\ UNCHANGED <<call, loc, stdout>>
                [] OTHER ->
                      /\ UNCHANGED stdout
                      /\ \E offline \in BOOLEAN :
                            calls_into(p, [NoCall EXCEPT !.cmd = "ensure_toolchain",
                                              !.offline = offline, !.is64bit = is64bit],
                                       "et_lock")
                      /\ frame' = [frame EXCEPT ![p] =
                             [fr EXCEPT !.cargo = [shim |-> subcommand.name
                                                              \in {"Run", "Bench", "Test"}],
                                        !.steps = @ \cup {"ensure_toolchain"}]]

\* build_toolchain(opts)?; return Ok(())
rmain_build_toolchain_returns(p) ==
    /\ pc[p] = "done"
    /\ call[p].cmd = "build_toolchain"
    /\ UNCHANGED project
    /\ UNCHANGED <<registry, dirs, libc, cache, tcLock, dlLock, res, work, calls, files,
                   stdout>>
    /\ call' = [call EXCEPT ![p] = NoCall]
    /\ loc' = [loc EXCEPT ![p] = NoLoc]
    /\ IF res[p].status = "ok"
       THEN exit(p, frame[p], "0", NoError)
       ELSE exit(p, frame[p], "1", Error(res[p].err, <<>>))

\* ensure_toolchain(config, is64bit)?, then WASI_SDK_DIR and RUSTFLAGS
rmain_ensure_toolchain_returns(p) ==
    /\ pc[p] = "done"
    /\ call[p].cmd = "ensure_toolchain"
    /\ UNCHANGED project
    /\ UNCHANGED <<registry, dirs, libc, cache, tcLock, dlLock, res, work, calls, files,
                   stdout>>
    /\ call' = [call EXCEPT ![p] = NoCall]
    /\ loc' = [loc EXCEPT ![p] = NoLoc]
    /\ IF res[p].status = "ok"
       THEN goto(p, frame[p], "execute_cargo")
       ELSE exit(p, frame[p], IF res[p].status = "panic" THEN "101" ELSE "1",
                 Error(res[p].err, <<>>))

wasm_artifacts_not_fresh(filenames, profile, fresh) ==
    LET wasms == SelectSeq(filenames, LAMBDA file : extension(file) = Some(<<"wasm">>))
    IN  [k \in DOMAIN wasms |-> [file |-> wasms[k], profile |-> profile, fresh |-> FALSE]]

\* the part of a file name list with the extension `wasm`, as artifacts
RECURSIVE wasm_artifacts(_, _, _)
wasm_artifacts(filenames, profile, fresh) ==
    IF filenames = <<>> THEN <<>>
    ELSE (IF extension(Head(filenames)) = Some(<<"wasm">>)
          THEN << [file |-> Head(filenames), profile |-> profile, fresh |-> fresh] >>
          ELSE <<>>) \o wasm_artifacts(Tail(filenames), profile, fresh)

\* str::split_whitespace
RECURSIVE split_whitespace(_, _)
split_whitespace(str, cur) ==
    IF str = <<>> THEN (IF cur = <<>> THEN <<>> ELSE <<cur>>)
    ELSE IF Head(str) \in WS
    THEN (IF cur = <<>> THEN <<>> ELSE <<cur>>) \o split_whitespace(Tail(str), <<>>)
    ELSE split_whitespace(Tail(str), Append(cur, Head(str)))

fold_prepends_runs(build, msg) ==
    CASE msg.reason = "compiler-artifact" ->
             [build EXCEPT
                !.wasms = @ \o wasm_artifacts(msg.filenames, msg.profile, msg.fresh)]
      [] msg.reason = "run-with-args" -> [build EXCEPT !.runs = <<msg.args>> \o @]
      [] OTHER -> build

\* the arms of the match on a decoded message
fold(build, msg) ==
    CASE msg.reason = "compiler-artifact" ->
             LET parts == split_whitespace(msg.package_id, <<>>)
             IN  [build EXCEPT
                    !.wasm_bindgen =
                        IF Len(parts) >= 2 /\ parts[1] = <<"wasm-bindgen">>
                        THEN Some(parts[2]) ELSE @,
                    !.wasms = @ \o wasm_artifacts(msg.filenames, msg.profile, msg.fresh)]
      [] msg.reason = "run-with-args" -> [build EXCEPT !.runs = Append(@, msg.args)]
      [] OTHER -> build

\* execute_cargo: spawn cargo, read its stdout to the end, wait for it, and
\* check_success(cargo, &status, &[], &[])
execute_cargo(p) ==
    /\ pc[p] = "execute_cargo"
    /\ UNCHANGED project
    /\ UNCHANGED <<registry, dirs, libc, cache, tcLock, dlLock, call, loc, res, work, calls,
                   stdout>>
    /\ \/ \* the process cannot be created, or a read or the wait fails
          /\ exit(p, frame[p], "1", Error("spawn", <<"cargo">>))
          /\ UNCHANGED files
       \/ LET text == project.json
               status == project.status
               fr == [frame[p] EXCEPT !.json = text,
                                     !.spawned = Append(@, [program |-> <<"cargo">>,
                                                            args |-> <<>>]),
                                     !.steps = @ \cup {"cargo"}]
               checked == check_success(status, <<>>, <<>>)
          IN  /\ files' = cargo_writes(files, text, project.funcs)
              /\ IF checked.some
                 THEN exit(p, fr, "1", hide_normal_process_exit(checked.val, fr.verbose))
                 ELSE goto(p, fr, "execute_cargo_line")

RECURSIVE trim_start(_)
trim_start(line) ==
    IF line # <<>> /\ Head(line) \in WS THEN trim_start(Tail(line)) ELSE line

is_record_trimmed(line) == StartsWith(trim_start(line), <<"{">>)

\* line.starts_with('{')
is_record(line) == StartsWith(line, <<"{">>)

\* one turn of `for line in json.lines()`: echo, or decode and fold
execute_cargo_line(p) ==
    /\ pc[p] = "execute_cargo_line"
    /\ UNCHANGED project
    /\ UNCHANGED <<registry, dirs, libc, cache, tcLock, dlLock, call, loc, res, work, calls,
                   files>>
    /\ LET ls == lines(frame[p].json)
           k == frame[p].line + 1
       IN  IF k > Len(ls)
           THEN /\ goto(p, frame[p], "execute_cargo_metadata")
                /\ UNCHANGED stdout
           ELSE IF ~is_record(ls[k])
           THEN /\ println(p, ls[k])
                /\ goto(p, [frame[p] EXCEPT !.line = k], "execute_cargo_line")
           ELSE /\ UNCHANGED stdout
                /\ LET msg == from_str(ls[k])
                   IN  IF msg.ok
                       THEN goto(p, [frame[p] EXCEPT !.line = k,
                                                     !.build = fold(@, msg.val)],
                                 "execute_cargo_line")
                       ELSE exit(p, frame[p], "1", Error("parse", ls[k]))

\* the end of execute_cargo: `cargo metadata`, the manifest of the
\* workspace and its [package.metadata] table
execute_cargo_metadata(p) ==
    /\ pc[p] = "execute_cargo_metadata"
    /\ UNCHANGED project
    /\ UNCHANGED <<registry, dirs, libc, cache, tcLock, dlLock, call, loc, res, work, calls,
                   files, stdout>>
    /\ \/ exit(p, frame[p], "1", Error("metadata", <<>>))
       \/ goto(p, [frame[p] EXCEPT
                      !.build.manifest_config = project.manifest_config,
                      !.spawned = Append(@, [program |-> <<"cargo">>,
                                             args |-> << <<"metadata">> >>]),
                      !.wasm = 1],
               "rmain_wasms")

-----------------------------------------------------------------------------
(* lib.rs: the artifacts, process_wasm, run_wasm_opt, run_or_download *)

\* Option::unwrap_or
unwrap_or(option, default) == IF option.some THEN option.val ELSE default

enable_name_section_with_debuginfo(build, profile) == profile.debuginfo

enable_name_section(build, profile) ==
    profile.debuginfo \/ unwrap_or(build.manifest_config.wasm_name_section, TRUE)

enable_producers_section_by_option(build, profile) ==
    unwrap_or(build.manifest_config.wasm_producers_section, TRUE)

enable_producers_section(build, profile) ==
    profile.debuginfo \/ unwrap_or(build.manifest_config.wasm_producers_section, TRUE)

\* walrus: parse_file with the ModuleConfig of process_wasm, every name
\* that try_demangle accepts replaced by its demangled form, emit_wasm
emit_wasm(module, profile, build) ==
    [module EXCEPT !.kind = "wasi",
                   !.dwarf = @ /\ profile.debuginfo,
                   !.name = @ /\ enable_name_section(build, profile),
                   !.producers = @ /\ enable_producers_section(build, profile),
                   !.funcs = IF module.name /\ enable_name_section(build, profile)
                             THEN [k \in DOMAIN @ |->
                                     IF try_demangle(@[k]).ok
                                     THEN sym_to_string(try_demangle(@[k]).val)
                                     ELSE @[k]]
                             ELSE <<>>]

wasm_opt_args_debuginfo(profile, build) ==
    << <<"-O", profile.opt_level>>, <<"--strip-producers">>, <<"--asyncify">>,
       <<"--debuginfo">> >>

wasm_opt_args_strip_debug(profile, build) ==
    << <<"-O", profile.opt_level>>, <<"--strip-producers">>, <<"--asyncify">>,
       <<"--strip-debug">> >>

skips_wasm_opt_by_profile(profile, build) ==
    profile.debuginfo \/ profile.opt_level = "0"

\* run_wasm_opt writes the bytes it is given and returns: the profile has
\* debug info or does not optimize, or the manifest has `wasm-opt = false`
skips_wasm_opt(profile, build) ==
    \/ profile.debuginfo \/ profile.opt_level = "0"
    \/ build.manifest_config.wasm_opt = Some(FALSE)

\* the command line of wasm-opt, but for the input and output files
wasm_opt_args(profile, build) ==
    << <<"-O", profile.opt_level>>, <<"--strip-producers">>, <<"--asyncify">>,
       IF enable_name_section(build, profile)
       THEN <<"--debuginfo">> ELSE <<"--strip-debug">> >>

\* what wasm-opt writes for these arguments
wasm_opt(bytes, args) ==
    [bytes EXCEPT !.opt = TRUE,
                  !.producers = FALSE,
                  !.dwarf = @ /\ args[4] = <<"--debuginfo">>,
                  !.name = @ /\ args[4] = <<"--debuginfo">>,
                  !.funcs = IF args[4] = <<"--debuginfo">> THEN @ ELSE <<>>]

is_processed_always(fresh, exists) == TRUE

\* if !*fresh || !temporary_wasi.exists()
is_processed(fresh, exists) == ~fresh \/ ~exists

\* the start of one turn of `for (wasm, profile, fresh) in build.wasms`:
\* the file of cargo is moved to *.rustc.wasm, and is processed unless it is
\* fresh and *.wasi.wasm exists; after the last turn come the runs
rmain_wasm(p) ==
    /\ pc[p] = "rmain_wasms"
    /\ UNCHANGED project
    /\ UNCHANGED <<registry, dirs, libc, cache, tcLock, dlLock, call, loc, res, work, calls,
                   stdout>>
    /\ LET build == frame[p].build
           k == frame[p].wasm
       IN  IF k > Len(build.wasms)
           THEN /\ goto(p, [frame[p] EXCEPT !.run = 1], "rmain_runs")
                /\ UNCHANGED files
           ELSE LET wasm == build.wasms[k].file
                    removed == [files EXCEPT ![temporary_rustc(wasm)] = Absent]
                IN  \/ \* fs::rename(wasm, &temporary_rustc)?
                       /\ files' = removed
                       /\ exit(p, frame[p], "1", Error("rename", <<>>))
                    \/ /\ files[wasm] # Absent
                       /\ files' = [files EXCEPT ![temporary_rustc(wasm)] = files[wasm],
                                                 ![wasm] = Absent]
                       /\ IF is_processed(build.wasms[k].fresh,
                                           files[temporary_wasi(wasm)] # Absent)
                          THEN goto(p, frame[p], "process_wasm")
                          ELSE goto(p, frame[p], "rmain_link")

\* process_wasm and run_wasm_opt up to run_or_download: the module is
\* parsed and emitted, and written as it is when wasm-opt is not to run
process_wasm(p) ==
    /\ pc[p] = "process_wasm"
    /\ UNCHANGED project
    /\ UNCHANGED <<registry, dirs, libc, cache, tcLock, dlLock, call, loc, res, work, calls,
                   stdout>>
    /\ LET build == frame[p].build
           wasm == build.wasms[frame[p].wasm].file
           profile == build.wasms[frame[p].wasm].profile
           bytes == emit_wasm(files[temporary_rustc(wasm)], profile, build)
           fr == [frame[p] EXCEPT !.steps = @ \cup {"process_wasm"}]
       IN  \/ \* parse_file(temp)?, fs::write(..)?, TempDir::new_in(..)?
              /\ exit(p, fr, "1", with_context(Error("process_wasm", <<>>),
                                                temporary_rustc(wasm)))
              /\ UNCHANGED files
           \/ IF skips_wasm_opt(profile, build)
              THEN /\ files' = [files EXCEPT ![temporary_wasi(wasm)] = bytes]
                   /\ goto(p, fr, "rmain_link")
              ELSE /\ UNCHANGED files
                   /\ \E is_overridden \in BOOLEAN :
                         goto(p, [fr EXCEPT !.bytes = bytes,
                                            !.is_overridden = is_overridden,
                                            !.cmd = wasm_opt_args(profile, build)],
                              "run_or_download")

\* how cmd.run() can end: the tool of the cache is found only once its
\* file is there, and a file that is there may not be executable yet
RunOutcomes(is_overridden, present) ==
    IF ~is_overridden /\ "bin/wasm-opt" \notin present
    THEN {"NotFound"}
    ELSE {"ok", "ProcessError", "PermissionDenied"}
            \cup (IF is_overridden THEN {"NotFound"} ELSE {})

\* the error of a run that did not end well
RunError(outcome) ==
    IF outcome = "ProcessError"
    THEN check_success("1", <<>>, <<>>).val
    ELSE Error(outcome, <<"wasm-opt">>)

rerun_after_download_not_found(err) == err.kind = "NotFound"

rerun_after_download_always(err) == TRUE

\* err.chain().any(..): the error is an io::Error of one of the two kinds
rerun_after_download(err) == err.kind \in {"NotFound", "PermissionDenied"}

returns_first_error_ignores_override(err, is_overridden) ==
    ~rerun_after_download(err)

\* if !rerun_after_download || is_overridden { return Err(err) }
returns_first_error(err, is_overridden) ==
    ~rerun_after_download(err) \/ is_overridden

\* run_or_download: cmd.run(), and what follows from its error: return it,
\* or call `download`, which is install_wasm_opt
run_or_download(p) ==
    /\ pc[p] = "run_or_download"
    /\ UNCHANGED project
    /\ UNCHANGED <<registry, dirs, libc, cache, tcLock, dlLock, res, work, calls, stdout>>
    /\ \E outcome \in RunOutcomes(frame[p].is_overridden, cache) :
          LET wasm == frame[p].build.wasms[frame[p].wasm].file
              fr == [frame[p] EXCEPT !.spawned =
                        Append(@, [program |-> <<"wasm-opt">>, args |-> frame[p].cmd])]
              err == RunError(outcome)
          IN  IF outcome = "ok"
              THEN /\ files' = [files EXCEPT ![temporary_wasi(wasm)] =
                                    wasm_opt(frame[p].bytes, frame[p].cmd)]
                   /\ goto(p, fr, "rmain_link")
                   /\ UNCHANGED <<call, loc>>
              ELSE /\ UNCHANGED files
                   /\ IF returns_first_error(err, frame[p].is_overridden)
                      THEN /\ exit(p, fr, "1", with_context(err, temporary_rustc(wasm)))
                           /\ UNCHANGED <<call, loc>>
                      ELSE \/ \* install_wasm_opt: no binaries for this platform
                              /\ exit(p, fr, "1", with_context(Error("install_wasm_opt", <<>>),
                                                                temporary_rustc(wasm)))
                              /\ UNCHANGED <<call, loc>>
                           \/ /\ calls_into(p, [NoCall EXCEPT !.cmd = "download"],
                                            "dl_flock")
                              /\ frame' = [frame EXCEPT ![p] =
                                             [fr EXCEPT !.steps = @ \cup {"download"},
                                                        !.err = err]]

\* download()?; cmd.run()
run_or_download_rerun(p) ==
    /\ pc[p] = "done"
    /\ call[p].cmd = "download"
    /\ UNCHANGED project
    /\ UNCHANGED <<registry, dirs, libc, cache, tcLock, dlLock, res, work, calls, stdout>>
    /\ call' = [call EXCEPT ![p] = NoCall]
    /\ loc' = [loc EXCEPT ![p] = NoLoc]
    /\ IF res[p].status # "ok"
       THEN /\ exit(p, frame[p], "1",
                    with_context(Error(res[p].err, <<>>),
                                 temporary_rustc(frame[p].build.wasms[frame[p].wasm].file)))
            /\ UNCHANGED files
       ELSE \E outcome \in RunOutcomes(FALSE, cache) :
               LET wasm == frame[p].build.wasms[frame[p].wasm].file
                   fr == [frame[p] EXCEPT !.spawned =
                             Append(@, [program |-> <<"wasm-opt">>, args |-> frame[p].cmd])]
               IN  IF outcome = "ok"
                   THEN /\ files' = [files EXCEPT ![temporary_wasi(wasm)] =
                                         wasm_opt(frame[p].bytes, frame[p].cmd)]
                        /\ goto(p, [fr EXCEPT !.err = NoError], "rmain_link")
                   ELSE /\ UNCHANGED files
                        /\ exit(p, fr, "1", with_context(RunError(outcome),
                                                          temporary_rustc(wasm)))

rmain_link_moves(p) ==
    /\ pc[p] = "rmain_link"
    /\ UNCHANGED project
    /\ UNCHANGED <<registry, dirs, libc, cache, tcLock, dlLock, call, loc, res, work, calls,
                   stdout>>
    /\ LET wasm == frame[p].build.wasms[frame[p].wasm].file
       IN  \/ /\ files' = [files EXCEPT ![wasm] = Absent]
              /\ exit(p, frame[p], "1", Error("link", <<>>))
           \/ /\ files[temporary_wasi(wasm)] # Absent
              /\ files' = [files EXCEPT ![wasm] = files[temporary_wasi(wasm)],
                                        ![temporary_wasi(wasm)] = Absent]
              /\ goto(p, [frame[p] EXCEPT !.wasm = @ + 1], "rmain_wasms")

\* the end of the turn: the conventional path becomes a hard link to
\* *.wasi.wasm, or a copy of it
rmain_link(p) ==
    /\ pc[p] = "rmain_link"
    /\ UNCHANGED project
    /\ UNCHANGED <<registry, dirs, libc, cache, tcLock, dlLock, call, loc, res, work, calls,
                   stdout>>
    /\ LET wasm == frame[p].build.wasms[frame[p].wasm].file
       IN  \/ /\ files' = [files EXCEPT ![wasm] = Absent]
              /\ exit(p, frame[p], "1", Error("link", <<>>))
           \/ /\ files[temporary_wasi(wasm)] # Absent
              /\ files' = [files EXCEPT ![wasm] = files[temporary_wasi(wasm)]]
              /\ goto(p, [frame[p] EXCEPT !.wasm = @ + 1], "rmain_wasms")

runner_command_default(wasix_runner, run) ==
    [program |-> Wasmer, args |-> << <<"--enable-threads">>, <<"--">> >> \o run]

\* Command::new(&wasix_runner), --enable-threads for wasmer, `--`, the run
runner_command(wasix_runner, run) ==
    [program |-> wasix_runner,
     args |-> (IF wasix_runner = Wasmer THEN << <<"--enable-threads">> >> ELSE <<>>)
                 \o << <<"--">> >> \o run]

rmain_run_goes_on(p) ==
    /\ pc[p] = "rmain_runs"
    /\ UNCHANGED project
    /\ UNCHANGED <<registry, dirs, libc, cache, tcLock, dlLock, call, loc, res, work, calls,
                   stdout, files>>
    /\ LET runs == frame[p].build.runs
           k == frame[p].run
       IN  IF k > Len(runs)
           THEN exit(p, frame[p], IF frame[p].err = NoError THEN "0" ELSE "1", frame[p].err)
           ELSE LET fr == [frame[p] EXCEPT
                              !.spawned = Append(@, runner_command(frame[p].wasix_runner,
                                                                   runs[k])),
                              !.steps = @ \cup {"run"}]
                IN  \/ goto(p, [fr EXCEPT !.run = k + 1], "rmain_runs")
                    \/ \E status \in {"1", "101", "200", "SIGKILL"} :
                          goto(p, [fr EXCEPT !.run = k + 1,
                                             !.err = hide_normal_process_exit(
                                                        check_success(status, <<>>, <<>>).val,
                                                        fr.verbose)],
                               "rmain_runs")

\* one turn of `for run in build.runs`: the runner is given the arguments
\* of the run after `--`; after the last turn rmain returns Ok(())
rmain_run(p) ==
    /\ pc[p] = "rmain_runs"
    /\ UNCHANGED project
    /\ UNCHANGED <<registry, dirs, libc, cache, tcLock, dlLock, call, loc, res, work, calls,
                   stdout, files>>
    /\ LET runs == frame[p].build.runs
           k == frame[p].run
       IN  IF k > Len(runs)
           THEN exit(p, frame[p], "0", NoError)
           ELSE LET fr == [frame[p] EXCEPT
                              !.spawned = Append(@, runner_command(frame[p].wasix_runner,
                                                                   runs[k])),
                              !.steps = @ \cup {"run"}]
                IN  \/ goto(p, [fr EXCEPT !.run = k + 1], "rmain_runs")
                    \/ \* cmd.output() fails: the process cannot be created
                       exit(p, fr, "1",
                            hide_normal_process_exit(Error("NotFound", fr.wasix_runner),
                                                     fr.verbose))
                    \/ \E status \in {"1", "101", "200", "SIGKILL"} :
                          exit(p, fr, "1",
                               hide_normal_process_exit(
                                  check_success(status, <<>>, <<>>).val, fr.verbose))

-----------------------------------------------------------------------------
(* Specifications *)

Step(p) ==
    \/ rmain_ensure_toolchain(p)
    \/ rmain_build_toolchain(p)
    \/ install_wasm_opt(p)
    \/ Exit(p)
    \/ ensure_toolchain_lock(p)
    \/ ensure_toolchain_find(p)
    \/ install_prebuilt_toolchain(p)
    \/ link_find(p)
    \/ link_remove(p)
    \/ link_link(p)
    \/ ensure_toolchain_validate(p)
    \/ build_toolchain_libc(p)
    \/ build_toolchain_rust(p)
    \/ download_flock(p)
    \/ download_check(p)
    \/ download_get(p)
    \/ download_extract(p)

Next == \E p \in Procs : Step(p)

Spec == Init /\ [][Next]_vars

SpecSeq == InitSeq /\ [][Next]_vars

TypeOK ==
    /\ tcLock \in Procs \cup {NoProc}
    /\ dlLock \in Procs \cup {NoProc}
    /\ cache \subseteq SubPaths
    /\ \A p \in Procs : calls[p] \in 0..MaxCalls /\ pc[p] = "idle" => work[p] = {}

Unregistered == registry[RUSTUP_TOOLCHAIN_NAME] = NoPath

\* two invocations that start on an empty cache
InitRace == Init /\ cache = {}

SpecRace == InitRace /\ [][Next]_vars

\* what a started call does by itself: every step but the start of a call
\* and the failure of a lock call.  A process that runs keeps running, the
\* commands and requests it waits for end, and lock_exclusive returns once
\* the lock is free.
Run(p) ==
    /\ pc[p] # "idle"
    /\ Step(p)
    /\ ~(pc[p] = "et_lock" /\ pc'[p] = "done")
    /\ ~(pc[p] = "dl_flock" /\ ~loc'[p].flock)

\* two invocations on a machine where nothing has been acquired yet
InitFresh ==
    /\ Init
    /\ Unregistered
    /\ registry[UserName] = NoPath
    /\ ~libc
    /\ cache = {}

FairSpec == InitFresh /\ [][Next]_vars /\ \A p \in Procs : WF_vars(Run(p))

\* cargo is given the runner for these command lines
RunsBinaries(argv) ==
    Len(argv) >= 3 /\ Subcommand(argv[3]).name \in {"Run", "Bench", "Test"}

\* the toolchain is registered and complete, or not registered at all
InitToolchain(registered) ==
    /\ registry = [n \in Names |->
                      IF n = StableName THEN StableDir
                      ELSE IF n = RUSTUP_TOOLCHAIN_NAME /\ registered THEN OldDir
                      ELSE NoPath]
    /\ dirs = [d \in ToolchainDirs |-> IF d = OldDir /\ registered THEN Entries ELSE {}]
    /\ libc = FALSE
    /\ tcLock = NoProc
    /\ dlLock = NoProc

\* what earlier builds left of foo.wasm: nothing; the module of an earlier
\* compilation with or without its finalized module; the finalized module
\* of the compilation cargo still has in its cache
InitTarget ==
    \E left \in { <<Absent, Absent>>,
                  <<RustcOutput(0, CHOOSE profile \in Profiles : profile.debuginfo), Absent>>,
                  <<RustcOutput(0, CHOOSE profile \in Profiles : profile.debuginfo),
                    Finalized(0)>>,
                  <<RustcOutput(1, CHOOSE profile \in Profiles : profile.debuginfo),
                    Finalized(1)>> } :
       files = [path \in TargetPaths |->
                   IF path = temporary_rustc(FooWasm) THEN left[1]
                   ELSE IF path \in {temporary_wasi(FooWasm), FooWasm} THEN left[2]
                   ELSE Absent]

\* process p1 is the invocation, with its environment and command line
InitInvocation(env, argv) ==
    /\ pc = [p \in Procs |-> "idle"]
    /\ call = [p \in Procs |-> NoCall]
    /\ loc = [p \in Procs |-> NoLoc]
    /\ res = [p \in Procs |-> NoRes]
    /\ work = [p \in Procs |-> {}]
    /\ stdout = [p \in Procs |-> <<>>]
    /\ calls = [p \in Procs |-> IF p = "p1" THEN 1 ELSE 0]
    /\ frame = [p \in Procs |->
                   IF p = "p1" THEN [NoFrame EXCEPT !.env = env, !.argv = argv]
                   ELSE NoFrame]

ReleaseProfile == [opt_level |-> "3", debuginfo |-> FALSE, test |-> FALSE]

\* a project with one executable that is optimized, run twice where
\* binaries are run
TypicalJson(shim) ==
    text_of(<< to_string(CompilerArtifact(<<FooRlib, FooWasm>>, PackageId, ReleaseProfile,
                                          FALSE)) >>
            \o (IF shim
                THEN << to_string(RunWithArgs(<<BarWasm, <<"\"", "c", "\\", "\n", "]">>>>)),
                        to_string(RunWithArgs(<<FooWasm>>)) >>
                ELSE <<>>))

\* every environment (cargo started the invocation as the runner of a
\* binary, or the user started it with or without a runner of their own) and
\* command line, on a typical project
InitInvocations ==
    /\ \E env \in {[NoEnv EXCEPT !.shim = TRUE]}
                    \cup {[NoEnv EXCEPT !.wasmer = wasmer] : wasmer \in BOOLEAN}
                    \cup {[NoEnv EXCEPT !.runner_var = runner_env_var(FALSE),
                                        !.runner = runner, !.wasmer = wasmer] :
                             runner \in {Wasmer, Echo, RuntimePath, Nowhere},
                             wasmer \in BOOLEAN}
                    \cup {[NoEnv EXCEPT !.runner_var = runner_env_var(TRUE),
                                        !.runner = Echo, !.wasmer = wasmer] :
                             wasmer \in BOOLEAN} :
          \E argv \in (IF env.shim THEN ShimArgvs ELSE UserArgvs) :
             /\ InitInvocation(env, argv)
             /\ project = [NoProject EXCEPT !.json = TypicalJson(RunsBinaries(argv))]
    /\ \E registered \in BOOLEAN : InitToolchain(registered)
    /\ cache \in {{}, SubPaths}
    /\ files = [path \in TargetPaths |-> Absent]

\* the lines of the texts: an executable of a release build, two
\* executables in one record, the library of wasm-bindgen, what the runner
\* prints, and the lines that are no record of the orchestrator
TextLines ==
    { to_string(CompilerArtifact(<<FooRlib, FooWasm>>, PackageId, ReleaseProfile, FALSE)),
      to_string(CompilerArtifact(<<BarWasm, FooWasm>>, PackageId, ReleaseProfile, FALSE)),
      to_string(CompilerArtifact(<<FooRlib>>, <<"wasm-bindgen", " ", "0.2.84">>,
                                 [opt_level |-> "0", debuginfo |-> TRUE, test |-> FALSE],
                                 TRUE)) }
        \cup { to_string(RunWithArgs(skip(argv, 1))) :
                   argv \in {<<Exe, FooWasm>>, <<Exe, BarWasm, <<"\"", "c", "\\", "\n", "]">>>>} }
        \cup
           { to_string(BuildFinished),
             <<"{", "\"reason\":", "\"", "compiler-message", "\"", "}">>,
             <<"warning: unused">>,
             <<" ", "{", "\"reason\":", "\"", "build-finished", "\"", "}">>,
             <<"Compiling", "\r">> }

\* `cargo wasix run` on every text of at most MaxLines of these lines, with
\* either exit status of cargo
InitTexts ==
    /\ InitToolchain(TRUE)
    /\ cache = SubPaths
    /\ files = [path \in TargetPaths |-> Absent]
    /\ \E argv \in {<<Exe, <<"wasix">>, <<"run">>>>} :
          /\ InitInvocation([NoEnv EXCEPT !.wasmer = TRUE], argv)
          /\ LET palette == TextLines
             IN  \E k \in 0..MaxLines :
                    \E ls \in [1..k -> palette] :
                       \E status \in {"0", "101"} :
                          /\ project = [NoProject EXCEPT !.json = text_of(ls),
                                                         !.status = status]
                          /\ CargoPrints(project.json, files)

\* `cargo wasix build` and `cargo wasix run` on every artifact, manifest (no
\* metadata table, wasm-opt disabled, the name and producers sections
\* disabled) and state of the cache and the target directory
InitArtifacts ==
    /\ InitToolchain(TRUE)
    /\ cache \in {{}, {"bin/wasm-opt"}, SubPaths}
    /\ InitTarget
    /\ \E argv \in {<<Exe, <<"wasix">>, <<"build">>>>, <<Exe, <<"wasix">>, <<"run">>>>} :
          /\ InitInvocation([NoEnv EXCEPT !.wasmer = TRUE], argv)
          /\ \E line \in ArtifactLines,
                manifest_config \in
                   { NoManifestConfig,
                     [NoManifestConfig EXCEPT !.wasm_opt = Some(FALSE)],
                     [NoManifestConfig EXCEPT !.wasm_name_section = Some(FALSE),
                                              !.wasm_producers_section = Some(FALSE)] } :
                /\ project = [NoProject EXCEPT
                                 !.json = text_of(<<line>> \o
                                     (IF RunsBinaries(argv)
                                      THEN <<to_string(RunWithArgs(<<FooWasm>>))>>
                                      ELSE <<>>)),
                                 !.manifest_config = manifest_config]
                /\ CargoPrints(project.json, files)

\* `cargo wasix run`, quiet or verbose, on a typical project, for every way
\* cargo can end and every name of a function
InitStatuses ==
    /\ InitToolchain(TRUE)
    /\ cache = SubPaths
    /\ files = [path \in TargetPaths |-> Absent]
    /\ \E flags \in {<<>>, << <<"-v">> >>, << <<"--verbose">> >>, << <<"--", "v">> >>},
          status \in {"0", "1", "101", "200", "SIGKILL"}, name \in FunctionNames :
          /\ InitInvocation([NoEnv EXCEPT !.wasmer = TRUE], <<Exe, <<"wasix">>, <<"run">>>> \o flags)
          /\ project = [NoProject EXCEPT !.json = TypicalJson(TRUE), !.status = status,
                                         !.funcs = <<name, <<"m", "a", "i", "n">>>>]
          /\ CargoPrints(project.json, files)

\* one invocation of `cargo wasix`, or of the runner cargo was given
InitMain == InitInvocations \/ InitTexts \/ InitArtifacts \/ InitStatuses

StepMain(p) ==
    \/ main(p)
    \/ rmain(p)
    \/ rmain_build_toolchain_returns(p)
    \/ rmain_ensure_toolchain_returns(p)
    \/ execute_cargo(p)
    \/ execute_cargo_line(p)
    \/ execute_cargo_metadata(p)
    \/ rmain_wasm(p)
    \/ process_wasm(p)
    \/ run_or_download(p)
    \/ run_or_download_rerun(p)
    \/ rmain_link(p)
    \/ rmain_run(p)
    \/ ensure_toolchain_lock(p)
    \/ ensure_toolchain_find(p)
    \/ install_prebuilt_toolchain(p)
    \/ link_find(p)
    \/ link_remove(p)
    \/ link_link(p)
    \/ ensure_toolchain_validate(p)
    \/ build_toolchain_libc(p)
    \/ build_toolchain_rust(p)
    \/ download_flock(p)
    \/ download_check(p)
    \/ download_get(p)
    \/ download_extract(p)

NextMain == \E p \in Procs : StepMain(p)

SpecMain == InitMain /\ [][NextMain]_vars

\* the command is given again once the invocation has failed in the turn of
\* an artifact, with nothing changed in the project: a new process starts,
\* cargo has nothing to compile and reports every artifact it reported as
\* fresh, and the runners print what they printed
rebuild(p) ==
    /\ pc[p] = "exited"
    /\ "cargo" \in frame[p].steps /\ project.status = "0"
    /\ frame[p].err.kind # "none"
    /\ frame[p].wasm \in DOMAIN frame[p].build.wasms
    /\ pc' = [pc EXCEPT ![p] = "idle"]
    /\ calls' = [calls EXCEPT ![p] = 1]
    /\ call' = [call EXCEPT ![p] = NoCall]
    /\ loc' = [loc EXCEPT ![p] = NoLoc]
    /\ res' = [res EXCEPT ![p] = NoRes]
    /\ work' = [work EXCEPT ![p] = {}]
    /\ stdout' = [stdout EXCEPT ![p] = <<>>]
    /\ frame' = [frame EXCEPT ![p] = [NoFrame EXCEPT !.env = frame[p].env,
                                                     !.argv = frame[p].argv]]
    /\ LET ls == lines(project.json)
           again == [k \in DOMAIN ls |->
                       IF from_str(ls[k]).ok /\ from_str(ls[k]).val.reason = "compiler-artifact"
                       THEN to_string([from_str(ls[k]).val EXCEPT !.fresh = TRUE])
                       ELSE ls[k]]
       IN  project' = [project EXCEPT !.json = text_of(again)]
    /\ UNCHANGED <<registry, dirs, libc, cache, tcLock, dlLock, files>>

NextRebuild == NextMain \/ \E p \in Procs : rebuild(p)

\* the invocations on a target directory where the finalized module of an
\* artifact that cargo does not compile again, if there is one, is the one
\* of the compilation cargo has in its cache
InitRebuild ==
    /\ InitInvocations \/ InitArtifacts
    /\ \A a \in reported(project.json) :
          (a.file \in Wasms /\ a.fresh) =>
              files[temporary_wasi(a.file)] \in {Absent, Finalized(1)}

\* an invocation and, once it is over, the same command again
SpecRebuild == InitRebuild /\ [][NextRebuild]_vars

-----------------------------------------------------------------------------
(* Properties *)

Running(p) == pc[p] \notin {"idle", "done"}

Ended(p, cmd) == pc[p] = "done" /\ res[p].cmd = cmd

AcquisitionLabels == {"ip_download", "lk_find", "lk_remove", "lk_link", "bt_libc", "bt_rust"}

\* the library directory of the requested target width
RequestedLib(is64bit) ==
    IF is64bit THEN "lib/rustlib/wasm64-wasmer-wasi" ELSE "lib/rustlib/wasm32-wasmer-wasi"

\* ensure_toolchain of p returns Ok(toolchain) in this step
ReturnsHandle(p) ==
    /\ pc[p] = "et_validate"
    /\ pc'[p] = "done"
    /\ res'[p].status = "ok"

\* C1: when the reserved name is unregistered and the tool is online, a
\* failed prebuilt acquisition makes the resolver build from source; no call
\* of ensure_toolchain ends with the download error.
C1_DownloadFailureFallsBack ==
    \A p \in Procs : ~(Ended(p, "ensure_toolchain") /\ res[p].err = "download")

\* C2: an offline ensure_toolchain that finds the reserved name unregistered
\* fails, and neither downloads, builds nor registers: registry, toolchain
\* directories and cache stay as they are.
C2_OfflineUnregisteredFails ==
    /\ [](\A p \in Procs :
            (call[p].cmd = "ensure_toolchain" /\ call[p].offline /\ Unregistered) =>
                /\ work[p] = {}
                /\ pc[p] \notin AcquisitionLabels
                /\ (pc[p] = "done" => res[p].status = "err"))
    /\ [][\A p \in Procs :
            (call[p].cmd = "ensure_toolchain" /\ call[p].offline /\ Unregistered) =>
                UNCHANGED <<registry, dirs, libc, cache>>]_vars

C2_Witness ==
    \E p \in Procs :
        /\ Ended(p, "ensure_toolchain")
        /\ call[p].offline
        /\ Unregistered
        /\ res[p].err = "offline"

\* C3: the ensure_toolchain that follows a successful ensure_toolchain finds
\* the registration and only validates: it never reaches the download, the
\* build or the registration, and does no acquisition work.
C3_SecondCallOnlyValidates ==
    \A p \in Procs :
        (/\ Running(p)
         /\ call[p].cmd = "ensure_toolchain"
         /\ res[p].cmd = "ensure_toolchain"
         /\ res[p].status = "ok") =>
            /\ pc[p] \in {"et_lock", "et_find", "et_validate"}
            /\ work[p] = {}

C3_Witness ==
    \E p \in Procs :
        /\ pc[p] = "et_validate"
        /\ res[p].cmd = "ensure_toolchain"
        /\ res[p].status = "ok"
        /\ registry[RUSTUP_TOOLCHAIN_NAME] = PrebuiltDir
        /\ loc[p].toolchain = PrebuiltDir

\* C4: ensure_toolchain returns a handle only if the sysroot the compiler
\* reported equals the path of the handle, which is the registered one, and
\* the library directory of the requested width exists under it; whatever
\* the validation finds, it ends the call and acquires nothing.
C4_HandleOnlyIfValidated ==
    [][\A p \in Procs :
        (pc[p] = "et_validate" /\ pc'[p] # "et_validate") =>
            /\ pc'[p] = "done"
            /\ UNCHANGED <<registry, dirs, libc, cache, work>>
            /\ res'[p].status = "ok" =>
                  /\ loc'[p].sysroot = loc'[p].toolchain
                  /\ loc'[p].toolchain = registry[RUSTUP_TOOLCHAIN_NAME]
                  /\ EntryExists(dirs, loc'[p].toolchain, RequestedLib(call[p].is64bit))]_vars

C4_Witness ==
    \E p \in Procs :
        /\ Ended(p, "ensure_toolchain")
        /\ res[p].status = "ok"
        /\ loc[p].sysroot = loc[p].toolchain
        /\ "download" \in work[p]

\* C5 as stated: a returned handle has the library directory of every
\* supported target width, whichever width was requested.
C5_EveryWidth ==
    [][\A p \in Procs :
        ReturnsHandle(p) =>
            \A is64bit \in BOOLEAN :
                EntryExists(dirs, loc'[p].toolchain, RequestedLib(is64bit))]_vars

\* C5 as amended: a returned handle has the library directory of the
\* requested target width under its path.
C5_RequestedWidth ==
    [][\A p \in Procs :
        ReturnsHandle(p) =>
            EntryExists(dirs, loc'[p].toolchain, RequestedLib(call[p].is64bit))]_vars

C5_Witness ==
    \E p \in Procs :
        /\ Ended(p, "ensure_toolchain")
        /\ res[p].status = "ok"
        /\ call[p].is64bit
        /\ ~EntryExists(dirs, loc[p].toolchain, RequestedLib(FALSE))

\* C6: link registers the directory only once no registration is left under
\* the reserved name (an existing one is removed first), and a successful
\* link leaves the name registered to the given directory.
C6_RemoveBeforeLink ==
    /\ [](\A p \in Procs : pc[p] = "lk_link" => Unregistered)
    /\ [][\A p \in Procs :
            (pc[p] = "lk_link" /\ "link" \in work'[p]) =>
                registry'[RUSTUP_TOOLCHAIN_NAME] = loc[p].dir]_vars

C6_Witness ==
    \E p \in Procs :
        /\ {"remove", "link"} \subseteq work[p]
        /\ loc[p].dir # NoPath
        /\ registry[RUSTUP_TOOLCHAIN_NAME] = loc[p].dir

\* p is between CHECK_LINKED and the end of VALIDATE
InResolver(p) ==
    /\ call[p].cmd = "ensure_toolchain"
    /\ pc[p] \in {"et_find", "ip_download", "lk_find", "lk_remove", "lk_link", "et_validate"}

\* C7: the resolver flow runs under the toolchain-registration lock: a
\* process inside it holds the lock, so no two processes are inside it.
C7_ResolverUnderLock ==
    \A p, q \in Procs :
        /\ InResolver(p) => tcLock = p
        /\ (InResolver(p) /\ InResolver(q)) => p = q

C7_Witness ==
    \E p, q \in Procs :
        /\ pc[p] = "lk_link"
        /\ InResolver(p)
        /\ pc[q] = "et_lock"

\* C8: a process that has ended its operation, by success, error or panic,
\* holds neither lock; hence a process waiting in a lock call gets past
\* it.
C8_LockReleasedOnEveryExit ==
    /\ [](\A p \in Procs : ~Running(p) => (tcLock # p /\ dlLock # p))
    /\ \A p \in Procs : (pc[p] = "et_lock") ~> (pc[p] # "et_lock")
    /\ \A p \in Procs : (pc[p] = "dl_flock") ~> (pc[p] # "dl_flock")

C8_Witness ==
    \E p, q \in Procs :
        /\ Ended(p, "ensure_toolchain")
        /\ res[p].status = "panic"
        /\ tcLock = q
        /\ p # q

\* C9: when two downloads that raced on an empty cache have both returned
\* Ok, every expected sub-path is in the cache and exactly one of the two
\* performed the fetch.
C9_ExactlyOneFetches ==
    \A p, q \in Procs :
        (/\ p # q
         /\ Ended(p, "download") /\ res[p].status = "ok"
         /\ Ended(q, "download") /\ res[q].status = "ok") =>
            /\ SubPaths \subseteq cache
            /\ ("fetch" \in work[p]) # ("fetch" \in work[q])

\* C10: download fetches exactly when an expected sub-path is missing:
\* with all of them present it returns Ok at once and leaves the cache
\* alone, otherwise it goes on to the GET; and it returns Ok only when
\* every expected sub-path exists.
C10_FetchIffMissing ==
    [][\A p \in Procs :
        /\ (pc[p] = "dl_check" /\ pc'[p] # "dl_check") =>
              IF SubPaths \subseteq cache
              THEN /\ pc'[p] = "done"
                   /\ res'[p].status = "ok"
                   /\ UNCHANGED <<cache, work>>
              ELSE pc'[p] = "dl_get"
        /\ ("fetch" \in work'[p] /\ "fetch" \notin work[p]) =>
              pc[p] = "dl_get"
        /\ (pc[p] # "done" /\ pc'[p] = "done" /\ res'[p].cmd = "download"
                /\ res'[p].status = "ok") =>
              SubPaths \subseteq cache']_vars

C10_Witness ==
    \E p \in Procs :
        /\ Ended(p, "download")
        /\ res[p].status = "ok"
        /\ "fetch" \in work[p]
        /\ loc[p].archive # SubPaths

-----------------------------------------------------------------------------
(* Properties of run_or_download *)

\* the step of p is the first cmd.run() of a run_or_download
FirstRun(p) == pc[p] = "run_or_download" /\ pc'[p] # "run_or_download"

\* the step of p is the return of download into run_or_download
DownloadReturns(p) == pc[p] = "done" /\ call[p].cmd = "download" /\ pc'[p] # "done"

\* p spawns exactly one more command in this step, and it is wasm-opt
RunsOnce(p) ==
    /\ Len(frame'[p].spawned) = Len(frame[p].spawned) + 1
    /\ SubSeq(frame'[p].spawned, 1, Len(frame[p].spawned)) = frame[p].spawned
    /\ frame'[p].spawned[Len(frame'[p].spawned)].program = <<"wasm-opt">>

\* C11: with an overridden tool, run_or_download runs the command once and
\* is over: it returns Ok, or the error of that run, whatever its kind; no
\* acquisition starts and the command is not run again.
C11_OverrideNeverAcquires ==
    /\ [](\A p \in Procs :
            call[p].cmd = "download" => ~frame[p].is_overridden)
    /\ [][\A p \in Procs :
            (FirstRun(p) /\ frame[p].is_overridden) =>
                /\ RunsOnce(p)
                /\ pc'[p] \in {"rmain_link", "exited"}
                /\ pc'[p] = "exited" =>
                      /\ frame'[p].err.kind \in {"NotFound", "PermissionDenied", "ProcessError"}
                      /\ frame'[p].exit = "1"
                /\ UNCHANGED <<cache, work, call>>]_vars

C11_Witness ==
    \E p \in Procs :
        /\ pc[p] = "exited"
        /\ frame[p].is_overridden
        /\ frame[p].err.kind = "NotFound"
        /\ frame[p].spawned[Len(frame[p].spawned)].program = <<"wasm-opt">>
        /\ "fetch" \notin work[p]

\* C12: without an override, a first run that fails with NotFound or
\* PermissionDenied is never returned: the acquisition is called, once;
\* when it succeeds the command is run once more and run_or_download is
\* over.  An acquisition starts nowhere else, so one call runs the command
\* at most twice and acquires at most once.
C12_AcquireOnceRetryOnce ==
    [][\A p \in Procs :
        /\ (FirstRun(p) /\ ~frame[p].is_overridden) =>
              /\ RunsOnce(p)
              /\ pc'[p] \in {"rmain_link", "exited", "dl_flock"}
              /\ pc'[p] = "exited" =>
                    frame'[p].err.kind \notin {"NotFound", "PermissionDenied"}
              /\ pc'[p] = "dl_flock" => call'[p].cmd = "download"
        /\ (pc'[p] = "dl_flock" /\ pc[p] # "dl_flock") => pc[p] = "run_or_download"
        /\ (DownloadReturns(p) /\ res[p].status = "ok") =>
              /\ RunsOnce(p)
              /\ pc'[p] \in {"rmain_link", "exited"}
              /\ call'[p].cmd = "none"]_vars

C12_Witness ==
    \E p \in Procs :
        /\ pc[p] = "rmain_link"
        /\ "fetch" \in work[p]
        /\ Len(frame[p].spawned) >= 2
        /\ frame[p].spawned[Len(frame[p].spawned)].program = <<"wasm-opt">>
        /\ frame[p].spawned[Len(frame[p].spawned) - 1].program = <<"wasm-opt">>

\* C13: run_or_download acquires only after a NotFound or a
\* PermissionDenied: any other failure of the first run is returned at
\* once.  A failed acquisition is returned and the command is not run
\* again; the failure of the second run is returned, and nothing is
\* acquired or run after it.
C13_OtherFailuresReturned ==
    [][\A p \in Procs :
        /\ (FirstRun(p) /\ pc'[p] = "dl_flock") =>
              frame'[p].err.kind \in {"NotFound", "PermissionDenied"}
        /\ (FirstRun(p) /\ frame'[p].err.kind = "ProcessError") =>
              /\ pc'[p] = "exited"
              /\ UNCHANGED <<cache, work, call>>
        /\ (DownloadReturns(p) /\ res[p].status # "ok") =>
              /\ pc'[p] = "exited"
              /\ frame'[p].err.kind = res[p].err
              /\ frame'[p].spawned = frame[p].spawned
              /\ UNCHANGED files
        /\ (DownloadReturns(p) /\ res[p].status = "ok" /\ frame'[p].err.kind # "none") =>
              /\ pc'[p] = "exited"
              /\ frame'[p].err.kind \in {"PermissionDenied", "ProcessError"}
              /\ UNCHANGED <<cache, work, files>>]_vars

C13_Witness ==
    \E p \in Procs :
        /\ pc[p] = "exited"
        /\ ~frame[p].is_overridden
        /\ frame[p].err.kind = "ProcessError"
        /\ "fetch" \in work[p]
        /\ frame[p].spawned[Len(frame[p].spawned) - 1].program = <<"wasm-opt">>

-----------------------------------------------------------------------------
(* Properties of main and rmain *)

\* the commands p gave to a runtime: neither cargo nor wasm-opt
RuntimeCommands(p) ==
    SelectSeq(frame[p].spawned,
              LAMBDA c : c.program \notin {<<"cargo">>, <<"wasm-opt">>})

\* the arguments of a command after its first `--`
RECURSIVE AfterSeparator(_)
AfterSeparator(args) ==
    IF args = <<>> THEN <<>>
    ELSE IF Head(args) = <<"--">> THEN Tail(args)
    ELSE AfterSeparator(Tail(args))

\* the argument lists of the run-with-args records among these lines, in
\* the order of the lines
RECURSIVE DeferredRuns(_)
DeferredRuns(ls) ==
    IF ls = <<>> THEN <<>>
    ELSE (IF from_str(Head(ls)).ok /\ from_str(Head(ls)).val.reason = "run-with-args"
          THEN <<from_str(Head(ls)).val.args>> ELSE <<>>) \o DeferredRuns(Tail(ls))

\* the subcommand of the command line runs binaries, for either width
AsksToRun(argv) ==
    /\ Len(argv) >= 3
    /\ argv[3] \in {<<"run">>, <<"run64">>, <<"test">>, <<"test64">>,
                    <<"bench">>, <<"bench64">>}

\* the variable cargo reads for the runner of the target of this command line
RunnerVariable(argv) ==
    IF Len(argv) >= 3 /\ argv[3] \in {<<"run64">>, <<"test64">>, <<"bench64">>,
                                       <<"build64">>, <<"check64">>, <<"tree64">>}
    THEN "CARGO_TARGET_WASM64_WASMER_WASI_RUNNER"
    ELSE "CARGO_TARGET_WASM32_WASMER_WASI_RUNNER"

\* C14: an invocation that finds the marker of the runner in its environment
\* prints one line, the RunWithArgs record of exactly its arguments, and
\* exits with status 0; it resolves no toolchain, starts no process and
\* touches no file.
C14_ShimOnlyPrintsItsArguments ==
    /\ [](\A p \in Procs :
            (frame[p].env.shim /\ pc[p] # "idle") =>
                /\ pc[p] = "exited"
                /\ frame[p].exit = "0"
                /\ Len(stdout[p]) = 1
                /\ from_str(stdout[p][1]).ok
                /\ from_str(stdout[p][1]).val.reason = "run-with-args"
                /\ from_str(stdout[p][1]).val.args =
                       SubSeq(frame[p].argv, 2, Len(frame[p].argv))
                /\ frame[p].steps = {}
                /\ frame[p].spawned = <<>>
                /\ work[p] = {}
                /\ call[p].cmd = "none")
    /\ [][\A p \in Procs :
            frame[p].env.shim =>
                UNCHANGED <<registry, dirs, libc, cache, tcLock, dlLock, files>>]_vars

C14_Witness ==
    \E p \in Procs :
        /\ frame[p].env.shim
        /\ pc[p] = "exited"
        /\ \E k \in 2..Len(frame[p].argv) : \E i \in 1..Len(frame[p].argv[k]) :
              frame[p].argv[k][i] \in {"\"", "\\", "\n"}
        /\ stdout[p] # <<>>

\* C15: no deferred run is executed before every artifact the build
\* reported is finalized and installed at its conventional path, and the
\* deferred runs are executed in the order of their records in the output.
C15_RunsAfterArtifactsInOrder ==
    \A p \in Procs :
        LET done == RuntimeCommands(p)
            asked == DeferredRuns(lines(project.json))
        IN  /\ Len(done) <= Len(asked)
            /\ \A k \in 1..Len(done) : AfterSeparator(done[k].args) = asked[k]
            /\ (frame[p].exit = "0" /\ AsksToRun(frame[p].argv)) => Len(done) = Len(asked)
            /\ done # <<>> =>
                  /\ pc[p] \in {"rmain_runs", "exited"}
                  /\ \A a \in reported(project.json) :
                        a.file \in Wasms =>
                           /\ files[a.file].kind = "wasi"
                           /\ files[a.file] = files[temporary_wasi(a.file)]

C15_Witness ==
    \E p \in Procs :
        /\ Len(RuntimeCommands(p)) >= 2
        /\ AfterSeparator(RuntimeCommands(p)[1].args) # AfterSeparator(RuntimeCommands(p)[2].args)
        /\ \E a \in reported(project.json) : a.file \in Wasms
        /\ frame[p].exit = "0"

\* the runtime this invocation is configured with cannot be found
Unresolvable(env, argv) ==
    IF env.runner_var = RunnerVariable(argv)
    THEN env.runner = Nowhere \/ (env.runner = Wasmer /\ ~env.wasmer)
    ELSE ~env.wasmer

\* C16: run, bench and test with a runtime that cannot be found (an override
\* that is neither a path nor a program of the search path, or the default
\* missing from the search path) fail before any work: no toolchain
\* resolution, no process, no file written; the error for an override names
\* the runner variable of the target.
C16_MissingRuntimeFailsFirst ==
    /\ [](\A p \in Procs :
            (/\ ~frame[p].env.shim
             /\ AsksToRun(frame[p].argv)
             /\ Unresolvable(frame[p].env, frame[p].argv)
             /\ pc[p] \notin {"idle", "rmain"}) =>
                /\ pc[p] = "exited"
                /\ frame[p].exit = "1"
                /\ frame[p].err.kind \in {"runner", "load_cache"}
                /\ (frame[p].err.kind = "runner"
                      /\ frame[p].env.runner_var = RunnerVariable(frame[p].argv)) =>
                       frame[p].err.what = <<RunnerVariable(frame[p].argv)>>
                /\ frame[p].steps = {}
                /\ frame[p].spawned = <<>>
                /\ work[p] = {}
                /\ call[p].cmd = "none"
                /\ stdout[p] = <<>>)
    /\ [][\A p \in Procs :
            (~frame[p].env.shim /\ AsksToRun(frame[p].argv)
                /\ Unresolvable(frame[p].env, frame[p].argv)) =>
                UNCHANGED <<registry, dirs, libc, cache, tcLock, dlLock, files>>]_vars

C16_Witness ==
    \E p \in Procs :
        /\ pc[p] = "exited"
        /\ frame[p].env.runner = Nowhere
        /\ frame[p].err.kind = "runner"
        /\ frame[p].err.what = <<"CARGO_TARGET_WASM32_WASMER_WASI_RUNNER">>

\* C17: every deferred run is given to the configured runtime: the override
\* of the user when the runner variable of the target is set, `wasmer`
\* otherwise; the arguments the runner recorded follow a `--` separator,
\* unchanged and in order.
C17_RunsUseConfiguredRuntime ==
    \A p \in Procs :
        LET env == frame[p].env
            runtime == IF env.runner_var = RunnerVariable(frame[p].argv)
                       THEN env.runner ELSE <<"wasmer">>
            done == RuntimeCommands(p)
        IN  \A k \in 1..Len(done) :
               /\ done[k].program = runtime
               /\ \E run \in { DeferredRuns(lines(project.json))[i] :
                                 i \in 1..Len(DeferredRuns(lines(project.json))) } :
                     done[k].args \in { << <<"--">> >> \o run,
                                        << <<"--enable-threads">>, <<"--">> >> \o run }

C17_Witness ==
    \E p \in Procs :
        /\ frame[p].env.runner_var = RunnerVariable(frame[p].argv)
        /\ frame[p].env.runner = Echo
        /\ Len(RuntimeCommands(p)) >= 2
        /\ Len(RuntimeCommands(p)[1].args) >= 3

-----------------------------------------------------------------------------
(* Properties of execute_cargo *)

\* the lines among these that do not begin with `{`, in their order
RECURSIVE Echoed(_)
Echoed(ls) ==
    IF ls = <<>> THEN <<>>
    ELSE (IF Head(ls) # <<>> /\ Head(Head(ls)) = "{" THEN <<>> ELSE <<Head(ls)>>)
            \o Echoed(Tail(ls))

\* the file names among these that end in `.wasm`
RECURSIVE WasmFiles(_)
WasmFiles(filenames) ==
    IF filenames = <<>> THEN <<>>
    ELSE (IF Len(Head(filenames)) >= 3 /\ SubSeq(Head(filenames), Len(Head(filenames)) - 1,
                                                Len(Head(filenames))) = <<".", "wasm">>
          THEN <<Head(filenames)>> ELSE <<>>) \o WasmFiles(Tail(filenames))

\* the executables of the compiler-artifact records among these lines
RECURSIVE Executables(_)
Executables(ls) ==
    IF ls = <<>> THEN <<>>
    ELSE (IF from_str(Head(ls)).ok /\ from_str(Head(ls)).val.reason = "compiler-artifact"
          THEN WasmFiles(from_str(Head(ls)).val.filenames) ELSE <<>>)
            \o Executables(Tail(ls))

\* the build events the orchestrator knows, as cargo and the runner print them
KnownRecords ==
    ArtifactLines \cup ShimLines \cup {to_string(BuildScriptExecuted), to_string(BuildFinished)}

\* the lines of the output execute_cargo has gone through
Processed(p) == SubSeq(lines(project.json), 1, frame[p].line)

\* C18: of the lines of the output execute_cargo has gone through, those
\* that do not begin with `{` have been printed as they are and in their
\* order, and nothing else has; the BuildResult holds what the records that
\* begin with `{` report and nothing from the other lines; a line is only
\* decoded when it begins with `{`, and unless the function ends with an
\* error every line is gone through.
C18_LinesEchoedOrFolded ==
    \A p \in Procs :
        ("cargo" \in frame[p].steps /\ project.status = "0") =>
            /\ frame[p].line <= Len(lines(project.json))
            /\ stdout[p] = Echoed(Processed(p))
            /\ frame[p].build.runs = DeferredRuns(Processed(p))
            /\ [k \in 1..Len(frame[p].build.wasms) |-> frame[p].build.wasms[k].file]
                  = Executables(Processed(p))
            /\ frame[p].err.kind = "parse" =>
                  (frame[p].err.what # <<>> /\ Head(frame[p].err.what) = "{")
            /\ (pc[p] # "execute_cargo_line" /\ frame[p].err.kind # "parse") =>
                  frame[p].line = Len(lines(project.json))

C18_Witness ==
    \E p \in Procs :
        /\ pc[p] = "rmain_wasms"
        /\ Len(stdout[p]) = 1
        /\ stdout[p][1] = <<" ", "{", "\"reason\":", "\"", "build-finished", "\"", "}">>
        /\ Len(frame[p].build.wasms) = 1

\* C19: a line that begins with `{` and is not one of the known build
\* events ends execute_cargo with a parse error at that line: no line after
\* it is gone through, nothing more is printed, no BuildResult is returned,
\* so no artifact is processed or installed and no deferred run is executed.
C19_UnknownRecordAborts ==
    /\ [](\A p \in Procs :
            ("cargo" \in frame[p].steps /\ project.status = "0") =>
                /\ \A k \in 1..frame[p].line :
                      LET line == lines(project.json)[k]
                      IN  (line # <<>> /\ Head(line) = "{") => line \in KnownRecords
                /\ frame[p].err.kind = "parse" =>
                      /\ pc[p] = "exited"
                      /\ frame[p].exit = "1"
                      /\ frame[p].line < Len(lines(project.json))
                      /\ frame[p].err.what = lines(project.json)[frame[p].line + 1]
                      /\ frame[p].err.what \notin KnownRecords
                      /\ frame[p].wasm = 0
                      /\ "process_wasm" \notin frame[p].steps
                      /\ "run" \notin frame[p].steps
                      /\ RuntimeCommands(p) = <<>>
                      /\ stdout[p] = Echoed(Processed(p)))
    /\ [][\A p \in Procs :
            frame'[p].err.kind = "parse" => UNCHANGED <<files, stdout, cache, work>>]_vars

C19_Witness ==
    \E p \in Procs :
        /\ frame[p].err.kind = "parse"
        /\ frame[p].line = 1
        /\ Len(lines(project.json)) = 2
        /\ Len(frame[p].build.wasms) = 1

-----------------------------------------------------------------------------
(* The artifacts: reuse, sections, wasm-opt, failures, exit codes *)

\* the artifact of the turn rmain is in
Turn(p) == frame[p].build.wasms[frame[p].wasm]

InTurn(p) == frame[p].wasm \in 1..Len(frame[p].build.wasms)

\* C21: when cargo reports an artifact as fresh and its *.wasi.wasm exists,
\* the turn goes from the rename straight to the link: *.wasi.wasm is left
\* as it is, nothing is parsed and no program is started, and the link
\* gives the conventional path the content of that *.wasi.wasm
C21_FreshReusesFinalized ==
    [][\A p \in Procs :
          /\ (/\ pc[p] = "rmain_wasms" /\ InTurn(p)
              /\ Turn(p).fresh
              /\ files[temporary_wasi(Turn(p).file)] # Absent
              /\ pc'[p] # "rmain_wasms")
                => /\ pc'[p] \in {"rmain_link", "exited"}
                   /\ files'[temporary_wasi(Turn(p).file)]
                         = files[temporary_wasi(Turn(p).file)]
                   /\ frame'[p].steps = frame[p].steps
                   /\ frame'[p].spawned = frame[p].spawned
                   /\ pc'[p] = "exited" => frame'[p].err.kind = "rename"
          /\ (pc[p] = "rmain_link" /\ pc'[p] = "rmain_wasms")
                => /\ files'[Turn(p).file] = files[temporary_wasi(Turn(p).file)]
                   /\ files'[temporary_wasi(Turn(p).file)]
                         = files[temporary_wasi(Turn(p).file)]
                   /\ frame'[p].spawned = frame[p].spawned]_vars

\* a fresh artifact was installed from the *.wasi.wasm of an earlier
\* invocation, and nothing was processed
C21_Witness ==
    \E p \in Procs :
       /\ pc[p] = "rmain_wasms"
       /\ frame[p].wasm = 2
       /\ frame[p].build.wasms[1].fresh
       /\ "process_wasm" \notin frame[p].steps
       /\ files[frame[p].build.wasms[1].file] = Finalized(1)
       /\ files[temporary_wasi(frame[p].build.wasms[1].file)] = Finalized(1)

\* the module process_wasm emitted in the step that is taken
Emitted(p) ==
    IF pc'[p] = "rmain_link" THEN files'[temporary_wasi(Turn(p).file)]
    ELSE frame'[p].bytes

\* C22: the module that process_wasm emits has the debug sections exactly
\* when the profile has debug info, the name section exactly when the
\* profile has debug info or the manifest does not set wasm-name-section to
\* false, and the producers section likewise for wasm-producers-section
C22_SectionsByProfileAndManifest ==
    [][\A p \in Procs :
          (pc[p] = "process_wasm" /\ pc'[p] \notin {"process_wasm", "exited"})
             => LET debuginfo == Turn(p).profile.debuginfo
                    manifest == project.manifest_config
                IN  /\ Emitted(p).dwarf = debuginfo
                    /\ Emitted(p).name
                          = (debuginfo \/ manifest.wasm_name_section # Some(FALSE))
                    /\ Emitted(p).producers
                          = (debuginfo \/ manifest.wasm_producers_section # Some(FALSE))]_vars

\* a module with debug info was emitted with its three kinds of sections
\* although the manifest disables the name and producers sections
C22_Witness ==
    \E p \in Procs :
       /\ pc[p] = "rmain_link" /\ InTurn(p)
       /\ "process_wasm" \in frame[p].steps
       /\ Turn(p).profile.debuginfo
       /\ project.manifest_config.wasm_name_section = Some(FALSE)
       /\ project.manifest_config.wasm_producers_section = Some(FALSE)
       /\ LET module == files[temporary_wasi(Turn(p).file)]
          IN  module.dwarf /\ module.name /\ module.producers

\* the step writes the *.wasi.wasm of the turn: run_wasm_opt returns Ok
Finalizes(p) ==
    /\ pc[p] \in {"process_wasm", "run_or_download", "done"}
    /\ pc'[p] = "rmain_link"

\* the *.wasi.wasm of the turn after the step
FinalizedModule(p) == files'[temporary_wasi(Turn(p).file)]

DefaultManifest == project.manifest_config = NoManifestConfig

\* C23 as stated: with the default manifest, an artifact finalized for a
\* profile with debug info has the debug-info and name sections, and one
\* finalized for a profile without debug info has neither
C23_ReleaseDropsNameSection ==
    [][\A p \in Procs :
          (Finalizes(p) /\ DefaultManifest)
             => IF Turn(p).profile.debuginfo
                THEN FinalizedModule(p).dwarf /\ FinalizedModule(p).name
                ELSE ~FinalizedModule(p).dwarf /\ ~FinalizedModule(p).name]_vars

\* C23, amended: with the default manifest, an artifact finalized for a
\* profile with debug info has the debug-info and name sections, and one
\* finalized for a profile without debug info has no debug-info section
\* but has the name section
C23_ReleaseKeepsNameSection ==
    [][\A p \in Procs :
          (Finalizes(p) /\ DefaultManifest)
             => /\ FinalizedModule(p).dwarf = Turn(p).profile.debuginfo
                /\ FinalizedModule(p).name]_vars

\* a debug build was finalized with its debug info and names
C23_Witness ==
    \E p \in Procs :
       /\ pc[p] = "rmain_link" /\ InTurn(p)
       /\ "process_wasm" \in frame[p].steps
       /\ DefaultManifest
       /\ Turn(p).profile = [opt_level |-> "0", debuginfo |-> TRUE, test |-> FALSE]
       /\ files[temporary_wasi(Turn(p).file)].gen = 1
       /\ files[temporary_wasi(Turn(p).file)].dwarf
       /\ files[temporary_wasi(Turn(p).file)].name

\* C24: with the default manifest, an artifact finalized for a release
\* profile without debug info has no debug-info section and has the name
\* section
C24_ReleaseStripsDebugKeepsNames ==
    [][\A p \in Procs :
          (/\ Finalizes(p) /\ DefaultManifest
           /\ Turn(p).profile.opt_level = "3" /\ ~Turn(p).profile.debuginfo)
             => /\ ~FinalizedModule(p).dwarf
                /\ FinalizedModule(p).name]_vars

\* a release build went through wasm-opt and kept its names
C24_Witness ==
    \E p \in Procs :
       /\ pc[p] = "rmain_link" /\ InTurn(p)
       /\ <<"wasm-opt">> \in {frame[p].spawned[k].program : k \in DOMAIN frame[p].spawned}
       /\ DefaultManifest
       /\ Turn(p).profile = [opt_level |-> "3", debuginfo |-> FALSE, test |-> FALSE]
       /\ files[temporary_wasi(Turn(p).file)].opt
       /\ files[temporary_wasi(Turn(p).file)].name
       /\ ~files[temporary_wasi(Turn(p).file)].dwarf

\* the programs started so far
Programs(p) == {frame[p].spawned[k].program : k \in DOMAIN frame[p].spawned}

\* the step starts wasm-opt
StartsWasmOpt(p) ==
    /\ Len(frame'[p].spawned) = Len(frame[p].spawned) + 1
    /\ frame'[p].spawned[Len(frame'[p].spawned)].program = <<"wasm-opt">>

C26_DebugBuildsRunWasmOpt ==
    [][\A p \in Procs :
          (/\ pc[p] = "process_wasm" /\ pc'[p] \notin {"process_wasm", "exited"}
           /\ ~Turn(p).fresh
           /\ Turn(p).profile.debuginfo)
             => /\ pc'[p] = "run_or_download"
                /\ \E i, j \in DOMAIN frame'[p].cmd :
                      /\ frame'[p].cmd[i] = <<"--asyncify">>
                      /\ frame'[p].cmd[j] = <<"--debuginfo">>]_vars

\* the module cargo leaves at the conventional path of an executable
Linked(profile) == [RustcOutput(1, profile) EXCEPT !.funcs = project.funcs]

\* the invocation ended with an error in the turn of an artifact
FailedInTurn(p) ==
    pc[p] = "exited" /\ frame[p].err.kind # "none" /\ InTurn(p)

\* the artifacts after the one of the turn are as cargo left them
LaterArtifactsUntouched(p) ==
    \A j \in (frame[p].wasm + 1)..Len(frame[p].build.wasms) :
       LET a == frame[p].build.wasms[j]
       IN  /\ files[a.file] = Linked(a.profile)
           /\ files[temporary_rustc(a.file)].gen = 0

\* C27 as stated: an invocation that fails in the turn of an artifact ends
\* there with an error that names the artifact, whatever failed: the
\* artifacts after it are not touched and no deferred run is started
C27_EveryFailureNamesArtifact ==
    \A p \in Procs :
       FailedInTurn(p) =>
          /\ frame[p].err.context = temporary_rustc(Turn(p).file)
          /\ LaterArtifactsUntouched(p)
          /\ RuntimeCommands(p) = <<>>

\* C27, amended: an invocation that fails in the turn of an artifact ends
\* there with exit code 1, the artifacts after it are not touched, no
\* deferred run is started and nothing follows; the error names the
\* *.rustc.wasm of the artifact when process_wasm failed, and names no file
\* when the rename or the link failed
C27_FailureAbortsTurn ==
    /\ [](\A p \in Procs :
            FailedInTurn(p) =>
               /\ frame[p].exit = "1"
               /\ LaterArtifactsUntouched(p)
               /\ RuntimeCommands(p) = <<>>
               /\ "run" \notin frame[p].steps
               /\ IF frame[p].err.kind \in {"rename", "link"}
                  THEN frame[p].err.context = <<>> /\ frame[p].err.what = <<>>
                  ELSE frame[p].err.context = temporary_rustc(Turn(p).file))
    /\ [][\A p \in Procs : pc[p] = "exited" => UNCHANGED <<pc, frame, files, cache>>]_vars

\* wasm-opt failed on the first of two artifacts
C27_Witness ==
    \E p \in Procs :
       /\ FailedInTurn(p)
       /\ frame[p].wasm = 1
       /\ Len(frame[p].build.wasms) = 2
       /\ frame[p].err.kind = "ProcessError"
       /\ frame[p].err.context = temporary_rustc(BarWasm)
       /\ files[FooWasm].kind = "rustc"

\* the command line asks for verbose output
Verbose(argv) == \E k \in 4..Len(argv) : argv[k] \in {<<"-v">>, <<"--verbose">>}

\* main did not end the invocation: an assertion of the resolver failed
Panicked(p) == frame[p].err.kind = "sysroot"

\* the error is the non-zero exit of a child with a code below 128 and no
\* captured output, in an invocation that is not verbose
NormalExit(p) ==
    /\ frame[p].err.kind = "ProcessError"
    /\ frame[p].err.status \in {"1", "101"}
    /\ frame[p].err.stdout = <<>> /\ frame[p].err.stderr = <<>>
    /\ ~Verbose(frame[p].argv)

\* the last program the invocation started
LastProgram(p) == frame[p].spawned[Len(frame[p].spawned)].program

C30_ProducedFileOnlyRenamed ==
    [][\A p \in Procs :
          /\ (pc[p] = "rmain_wasms" /\ InTurn(p) /\ pc'[p] \notin {"rmain_wasms", "exited"})
                => /\ files[Turn(p).file] = Linked(Turn(p).profile)
                   /\ files'[temporary_rustc(Turn(p).file)] = files[Turn(p).file]
                   /\ files'[Turn(p).file] = Absent
                   /\ \A path \in TargetPaths \ {Turn(p).file, temporary_rustc(Turn(p).file)} :
                         files'[path] = files[path]
          /\ (pc[p] \in {"process_wasm", "run_or_download", "dl_flock", "dl_check",
                          "dl_get", "dl_extract", "done"}
                 /\ InTurn(p))
                => /\ files[Turn(p).file] = Absent
                   /\ files'[Turn(p).file] = Absent
                   /\ files'[temporary_rustc(Turn(p).file)]
                         = Linked(Turn(p).profile)
          /\ (pc[p] = "rmain_link" /\ pc'[p] # "rmain_link")
                => /\ files[Turn(p).file] = Absent
                   /\ files'[Turn(p).file]
                         \in {Absent, files[temporary_wasi(Turn(p).file)]}
                   /\ files'[temporary_rustc(Turn(p).file)]
                         = Linked(Turn(p).profile)
                   /\ files'[Turn(p).file].kind # "rustc"]_vars

\* the module of a fresh artifact replaced the *.rustc.wasm of an earlier
\* compilation, and its conventional path is empty before the link
C30_Witness ==
    \E p \in Procs :
       /\ pc[p] = "rmain_link" /\ InTurn(p)
       /\ Turn(p).fresh
       /\ "process_wasm" \notin frame[p].steps
       /\ files[temporary_rustc(Turn(p).file)] = Linked(Turn(p).profile)
       /\ files[temporary_wasi(Turn(p).file)] = Finalized(0)
       /\ files[Turn(p).file] = Absent

\* the names rustc gives to functions, each with the form it reads as
Readable ==
    { << <<"_", "Z", "N", "1", "a", "3", "h", "0", "f", "E">>,
         <<"a", ":", ":", "h", "0", "f">> >>,
      << <<"Z", "N", "1", "a", "3", "h", "0", "f", "E">>,
         <<"a", ":", ":", "h", "0", "f">> >>,
      << <<"_", "_", "Z", "N", "1", "a", "3", "h", "0", "f", "E">>,
         <<"a", ":", ":", "h", "0", "f">> >>,
      << <<"_", "Z", "N", "1", "0", "a", "b", "c", "d", "e", "f", "g", "h", "i", "j",
           "1", "b", "3", "h", "0", "f", "E">>,
         <<"a", "b", "c", "d", "e", "f", "g", "h", "i", "j", ":", ":", "b", ":", ":",
           "h", "0", "f">> >> }

\* the name begins like a mangled name
HasPrefix(name) ==
    \/ StartsWith(name, <<"Z", "N">>)
    \/ StartsWith(name, <<"_", "Z", "N">>)
    \/ StartsWith(name, <<"_", "_", "Z", "N">>)

\* process_wasm emits a module with its name section in this step
EmitsNames(p) ==
    /\ pc[p] = "process_wasm" /\ pc'[p] \notin {"process_wasm", "exited"}
    /\ Emitted(p).name

\* the names of the functions of the module process_wasm reads
ParsedFuncs(p) == files[temporary_rustc(Turn(p).file)].funcs

\* C29 as stated: every name that is not mangled is emitted as it is, no
\* emitted name is a mangled name, and demangling the emitted names again
\* changes none of them
C29_DemangledOnceAndForAll ==
    [][\A p \in Procs :
          EmitsNames(p) =>
             /\ DOMAIN Emitted(p).funcs = DOMAIN ParsedFuncs(p)
             /\ \A k \in DOMAIN ParsedFuncs(p) :
                   LET name == ParsedFuncs(p)[k]
                       emitted == Emitted(p).funcs[k]
                   IN  /\ ~HasPrefix(name) => emitted = name
                       /\ ~try_demangle(emitted).ok
                       /\ try_demangle(emitted).ok =>
                             sym_to_string(try_demangle(emitted).val) = emitted]_vars

\* C29, amended: every name that is not mangled is emitted as it is; a
\* name that rustc mangled is emitted in its readable form, which is not a
\* mangled name, so that demangling it again changes nothing; any other
\* name is emitted as it is or, when the demangler accepts it, as its
\* elements joined by `::`, in one pass
C29_DemangledInOnePass ==
    [][\A p \in Procs :
          EmitsNames(p) =>
             /\ DOMAIN Emitted(p).funcs = DOMAIN ParsedFuncs(p)
             /\ \A k \in DOMAIN ParsedFuncs(p) :
                   LET name == ParsedFuncs(p)[k]
                       emitted == Emitted(p).funcs[k]
                   IN  /\ ~HasPrefix(name) => emitted = name
                       /\ \A r \in Readable :
                             name = r[1] => /\ emitted = r[2]
                                            /\ ~HasPrefix(emitted)
                                            /\ ~try_demangle(emitted).ok
                       /\ name = <<"_", "Z", "N", "1", "a", "E", "v">> => emitted = name
                       /\ name = <<"_", "Z", "N", "9", "a", "E">> => emitted = name
                       /\ name = <<"_", "Z", "N", "E">> => emitted = <<>>
                       /\ name = <<"_", "Z", "N", "6", "_", "Z", "N", "1", "a", "E", "E">>
                             => emitted = <<"_", "Z", "N", "1", "a", "E">>]_vars

\* a module whose function had a mangled name with `ZN` as its prefix was
\* finalized with the readable name
C29_Witness ==
    \E p \in Procs :
       /\ pc[p] = "rmain_link" /\ InTurn(p)
       /\ "process_wasm" \in frame[p].steps
       /\ files[temporary_rustc(Turn(p).file)].funcs
             = << <<"Z", "N", "1", "a", "3", "h", "0", "f", "E">>, <<"m", "a", "i", "n">> >>
       /\ files[temporary_wasi(Turn(p).file)].funcs
             = << <<"a", ":", ":", "h", "0", "f">>, <<"m", "a", "i", "n">> >>

-----------------------------------------------------------------------------
(* The command line of wasm-opt, the build result, the link, the locks *)

\* the command the step starts
Started(p) == frame'[p].spawned[Len(frame'[p].spawned)]

\* how often an argument is on a command line
Count(args, arg) == Cardinality({k \in DOMAIN args : args[k] = arg})

\* C31: every command line wasm-opt is started with has -O with the
\* opt-level of the profile of the artifact, --strip-producers and
\* --asyncify, and exactly one of --debuginfo and --strip-debug:
\* --debuginfo exactly when the module was parsed with its name section
C31_WasmOptCommandLine ==
    [][\A p \in Procs :
          StartsWasmOpt(p) =>
             LET args == Started(p).args
                 keeps_names == \/ Turn(p).profile.debuginfo
                                \/ project.manifest_config.wasm_name_section # Some(FALSE)
             IN  /\ Count(args, <<"-O", Turn(p).profile.opt_level>>) = 1
                 /\ Count(args, <<"--strip-producers">>) = 1
                 /\ Count(args, <<"--asyncify">>) = 1
                 /\ Count(args, <<"--debuginfo">>) + Count(args, <<"--strip-debug">>) = 1
                 /\ (Count(args, <<"--debuginfo">>) = 1) = keeps_names
                 /\ frame[p].bytes.name = keeps_names]_vars

\* wasm-opt was started with --strip-debug for a manifest that disables
\* the name section
C31_Witness ==
    \E p \in Procs :
       /\ InTurn(p)
       /\ project.manifest_config.wasm_name_section = Some(FALSE)
       /\ \E k \in DOMAIN frame[p].spawned :
             /\ frame[p].spawned[k].program = <<"wasm-opt">>
             /\ Count(frame[p].spawned[k].args, <<"--strip-debug">>) = 1
             /\ Count(frame[p].spawned[k].args, <<"-O", "3">>) = 1

\* the executables of the compiler-artifact records among these lines, each
\* with what its record says of the profile and of the freshness
RECURSIVE Artifacts(_)
Artifacts(ls) ==
    IF ls = <<>> THEN <<>>
    ELSE (IF from_str(Head(ls)).ok /\ from_str(Head(ls)).val.reason = "compiler-artifact"
          THEN LET record == from_str(Head(ls)).val
                   wasms == WasmFiles(record.filenames)
               IN  [k \in DOMAIN wasms |-> [file |-> wasms[k], profile |-> record.profile,
                                            fresh |-> record.fresh]]
          ELSE <<>>) \o Artifacts(Tail(ls))

\* execute_cargo has gone through the whole output of a cargo that succeeded
Folded(p) ==
    /\ "cargo" \in frame[p].steps
    /\ project.status = "0"
    /\ pc[p] # "execute_cargo_line"
    /\ frame[p].err.kind # "parse"

\* C32: once execute_cargo has gone through the output, the artifacts of the
\* BuildResult are the file names with the extension `wasm` of the
\* compiler-artifact records, each with the profile and the fresh flag of
\* its own record, in the order of the output (the file names of other
\* extensions are not among them), and the deferred runs are the argument
\* lists of the run-with-args records, in the order of the output.
C32_BuildResultFromRecords ==
    \A p \in Procs :
        Folded(p) =>
            /\ frame[p].build.wasms = Artifacts(lines(project.json))
            /\ frame[p].build.runs = DeferredRuns(lines(project.json))
            /\ \A k \in DOMAIN frame[p].build.wasms : frame[p].build.wasms[k].file # FooRlib

\* two executables of one record, after the record of a library with
\* another profile and another fresh flag
C32_Witness ==
    \E p \in Procs :
        /\ Folded(p)
        /\ Len(frame[p].build.wasms) = 2
        /\ frame[p].build.wasms[1].file # frame[p].build.wasms[2].file
        /\ \E a \in reported(project.json) :
              /\ a.file = FooRlib
              /\ a.line = 1
              /\ a.profile # frame[p].build.wasms[1].profile
              /\ a.fresh # frame[p].build.wasms[1].fresh

\* the artifacts whose turn of the loop is over
Installed(p) ==
    { frame[p].build.wasms[k].file :
         k \in { j \in DOMAIN frame[p].build.wasms : j < frame[p].wasm } }

\* C33: the turn of an artifact ends by giving the conventional path the
\* content of *.wasi.wasm, which is left as it is (a hard link, or the copy
\* that replaces it, are the same content); so every artifact whose turn is
\* over exists at its conventional path, finalized, with the content of its
\* *.wasi.wasm, until the invocation ends.
C33_ConventionalPathIsFinalized ==
    /\ [](\A p \in Procs : \A wasm \in Installed(p) :
             /\ files[wasm].kind = "wasi"
             /\ files[wasm] = files[temporary_wasi(wasm)])
    /\ [][\A p \in Procs :
             (pc[p] = "rmain_link" /\ pc'[p] = "rmain_wasms") =>
                 /\ files'[Turn(p).file] = files[temporary_wasi(Turn(p).file)]
                 /\ files'[temporary_wasi(Turn(p).file)] = files[temporary_wasi(Turn(p).file)]
                 /\ files[temporary_wasi(Turn(p).file)] # Absent
                 /\ \A path \in TargetPaths : path # Turn(p).file => files'[path] = files[path]]_vars

C33_Witness ==
    \E p \in Procs :
        /\ pc[p] = "exited"
        /\ frame[p].exit = "0"
        /\ Installed(p) = {FooWasm, BarWasm}
        /\ files[BarWasm] = files[temporary_wasi(BarWasm)]
        /\ files[BarWasm].kind = "wasi"
        /\ "process_wasm" \in frame[p].steps

\* the step is a turn of `for run in build.runs`
RunsNext(p) == pc[p] = "rmain_runs" /\ frame[p].run \in DOMAIN frame[p].build.runs

\* C40: each turn of the loop over the deferred runs starts one command,
\* for the run of the turn, and is over when the command has ended; when
\* the command fails the invocation ends at once with the failure of that
\* command, so that no later run is started; at any time the runs that were
\* started are the first ones of the deferred runs of the BuildResult, in
\* their order.
C40_RunsStopAtFirstFailure ==
    /\ [](\A p \in Procs :
             LET done == RuntimeCommands(p)
                 asked == frame[p].build.runs
             IN  /\ Len(done) <= Len(asked)
                 /\ \A k \in DOMAIN done : AfterSeparator(done[k].args) = asked[k]
                 /\ (pc[p] = "exited" /\ done # <<>> /\ frame[p].err.kind # "none") =>
                       /\ Len(done) = frame[p].run
                       /\ frame[p].err.kind \in {"NotFound", "ProcessError"}
                       /\ frame[p].exit # "0")
    /\ [][\A p \in Procs :
             /\ RunsNext(p) =>
                   /\ Len(frame'[p].spawned) = Len(frame[p].spawned) + 1
                   /\ AfterSeparator(Started(p).args) = frame[p].build.runs[frame[p].run]
                   /\ IF frame'[p].err.kind = "none"
                      THEN pc'[p] = "rmain_runs" /\ frame'[p].run = frame[p].run + 1
                      ELSE pc'[p] = "exited" /\ frame'[p].run = frame[p].run
             /\ pc[p] = "exited" => frame'[p].spawned = frame[p].spawned]_vars

C40_Witness ==
    \E p \in Procs :
        /\ pc[p] = "exited"
        /\ Len(frame[p].build.runs) = 2
        /\ Len(RuntimeCommands(p)) = 1
        /\ frame[p].err.kind = "ProcessError"
        /\ frame[p].run = 1

\* the turn of a fresh artifact goes from the rename straight to the link
Reuses(p) == pc[p] = "rmain_wasms" /\ InTurn(p) /\ pc'[p] = "rmain_link"

\* C34: whenever the turn of a fresh artifact reuses the *.wasi.wasm that
\* exists, that file was made from the module of the compilation cargo
\* reports, which is the one at the conventional path when the turn starts:
\* the finalized module of an older compilation is never installed.
C34_ReusedFinalizedIsCurrent ==
    [][\A p \in Procs :
          Reuses(p) =>
             /\ files[temporary_wasi(Turn(p).file)].kind = "wasi"
             /\ files[temporary_wasi(Turn(p).file)].gen = files[Turn(p).file].gen]_vars

-----------------------------------------------------------------------------
(* The registry and the two locks *)

\* the step is p's, and changes what is registered under the reserved name
Registers(p) ==
    /\ pc[p] \in {"lk_remove", "lk_link"}
    /\ pc'[p] # pc[p]
    /\ registry'[RUSTUP_TOOLCHAIN_NAME] # registry[RUSTUP_TOOLCHAIN_NAME]

\* p has removed the registration of the reserved name and has not
\* registered the name again
BetweenRemoveAndLink(p) == pc[p] = "lk_link" /\ "remove" \in work[p]

\* C35: a step of link that changes the registration of the reserved name,
\* the removal or the registration, is the step of a process that holds the
\* toolchain-registration lock, whatever called link; so no ensure_toolchain
\* reads the registry while another process is between its removal and its
\* registration.
C35_RegistryChangesUnderLock ==
    /\ [][\A p \in Procs : Registers(p) => tcLock = p]_vars
    /\ [](\A p, q \in Procs :
             (BetweenRemoveAndLink(q) /\ p # q) => pc[p] # "et_find")

\* p is in download, after the call of utils::flock
Downloading(p) == pc[p] \in {"dl_check", "dl_get", "dl_extract"}

\* C36: download checks the sub-paths, fetches and unpacks only while it
\* holds the exclusive lock on the file `downloading`: a download whose lock
\* call failed does not go on to the check, the fetch or the extraction.
C36_DownloadUnderLock ==
    \A p \in Procs : Downloading(p) => (loc[p].flock /\ dlLock = p)

\* C37: a process holds the toolchain-registration lock only inside
\* ensure_toolchain and the lock of downloads only inside download, after
\* its lock call: the first is released when ensure_toolchain returns,
\* before cargo runs and before any download of wasm-opt starts, so no
\* process ever holds both locks.
C37_NeverBothLocks ==
    \A p \in Procs :
        /\ ~(tcLock = p /\ dlLock = p)
        /\ tcLock = p => InResolver(p)
        /\ dlLock = p => Downloading(p)

C37_Witness ==
    \E p \in Procs :
        /\ dlLock = p
        /\ pc[p] = "dl_get"
        /\ tcLock = NoProc
        /\ "process_wasm" \in frame[p].steps
        /\ frame[p].spawned[1].program = <<"cargo">>

-----------------------------------------------------------------------------
(* find_by_name and link *)

\* what is registered under the reserved name
Registered == registry[RUSTUP_TOOLCHAIN_NAME]

\* C38: find_by_name(name) returns a toolchain exactly when the listing has
\* an entry whose name is `name`, and the path it returns is the path of
\* that entry; an entry whose name only starts with `name` is not taken for
\* it.  So the step of ensure_toolchain that calls it goes on to the
\* validation, with the registered path, exactly when the reserved name is
\* registered, and to the installation exactly when it is not.
C38_FindsExactName ==
    [][\A p \in Procs :
          (pc[p] = "et_find" /\ pc'[p] # "done") =>
             LET found == find_by_name(RUSTUP_TOOLCHAIN_NAME, Listing(registry))
             IN  /\ found.some = (Registered # NoPath)
                 /\ found.some => found.val = Registered
                 /\ pc'[p] = IF Registered # NoPath THEN "et_validate" ELSE "ip_download"
                 /\ pc'[p] = "et_validate" => loc'[p].toolchain = Registered]_vars
\* the step is an error return of link
LinkFails(p) ==
    /\ pc[p] \in {"lk_find", "lk_remove", "lk_link"}
    /\ pc'[p] = "done"
    /\ res'[p].status = "err"

\* C39 as stated: when link returns an error, at whichever step, the
\* reserved name is registered as it was when link was called
C39_FailedLinkKeepsRegistration ==
    [][\A p \in Procs : LinkFails(p) => Registered' = loc[p].was]_vars

\* C39, amended: when link returns an error from the check of rustc, from
\* find_by_name or from the removal, the reserved name is registered as it
\* was when link was called; when the registration fails after the removal
\* was made, the name is left unregistered.
C39_FailedLinkKeepsOrUnregisters ==
    [][\A p \in Procs :
          LinkFails(p) =>
             /\ registry' = registry
             /\ Registered' = IF pc[p] = "lk_link" /\ "remove" \in work[p]
                              THEN NoPath ELSE loc[p].was]_vars

C39_Witness ==
    \E p \in Procs :
        /\ Ended(p, "build_toolchain")
        /\ res[p].status = "err"
        /\ "remove" \in work[p]
        /\ loc[p].was = OldDir
        /\ Registered = NoPath

=============================================================================
